---- MODULE Spec2Model ----
(***************************************************************************)
(* Tencent Cloud COS storage driver (registry/storage/driver/cos).         *)
(*                                                                         *)
(* The repository holds two implementations of the driver:                 *)
(*   - registry/storage/driver/cos/cos.go      (impl = "cos")              *)
(*   - the driver of src/unnamed/part_001      (impl = "p1", suffix P1)    *)
(* Both are modelled, operation by operation, over one model of the COS    *)
(* object store (objects and multipart upload sessions).  Every backend    *)
(* request may fail; a failed request leaves the store unchanged.          *)
(***************************************************************************)
EXTENDS Integers, Sequences, FiniteSets, TLC

VARIABLES
    impl,      \* which implementation the driver instance runs
    d,         \* driver: [RootDirectory, ChunkSize]
    objects,   \* bucket: object key -> content (DOMAIN = the keys that exist)
    uploads,   \* multipart sessions: upload id -> [key, parts, state]
    w,         \* the FileWriter under observation, or NoWriter
    ret,       \* result of the last call: [op, path, n, err, data, arg]
    reqs,      \* backend requests issued by the last call, in order
    hist       \* history of the writer (observer state, never read by the code)

vars == <<impl, d, objects, uploads, w, ret, reqs, hist>>

---------------------------------------------------------------------------
(* Bounds of the model *)

\* largest chunk size a driver is configured with (the real range is MiB)
MaxChunk == 2
\* most bytes one writer is handed over its life
MaxBytes == 3
\* PutContent is not called once this many upload sessions exist
MaxUploads == 1
\* most entries the store puts on one page of a listing
MaxPage == 2

\* MaxKeys of the listing requests of cos.go List and Delete; part_001 listMax
cosMaxKeys == 1000
listMax == 1000

Paths == { <<"/", "a">>, <<"/", "b">> }

RootDirs == { <<>>, <<"/", "r">> }

\* the paths of the objects a bucket may hold when the driver is constructed,
\* and the paths Stat and Delete, List, and Walk are called with
TreePaths ==
    { <<"/", "a">>, <<"/", "a", "/", "b">>, <<"/", "a", "/", "b", "/", "c">>,
      <<"/", "a", "/", "b", "/", "d">>, <<"/", "a", "/", "b", "c">> }
StatPaths == TreePaths \cup { <<"/", "e">> }
ListPaths == { <<"/">>, <<"/", "a">>, <<"/", "a", "/", "b">>, <<"/", "e">> }
WalkPaths == { <<"/">>, <<"/", "a">>, <<"/", "a", "/", "b">> }
MovePaths == { <<"/", "a">>, <<"/", "a", "/", "b">>, <<"/", "e">> }

\* the values of the parameters a driver is configured with
RequiredParams  == { [kind |-> "nil", s |-> <<>>, n |-> 0],
                     [kind |-> "string", s |-> <<>>, n |-> 0],
                     [kind |-> "string", s |-> <<"x">>, n |-> 0] }
ChunkSizeParams ==
    { [kind |-> "nil", s |-> <<>>, n |-> 0],
      [kind |-> "string", s |-> <<"n", "o", "t", "-", "a", "-", "n", "u", "m", "b", "e", "r">>, n |-> 0],
      [kind |-> "string", s |-> <<"1">>, n |-> 0],
      [kind |-> "string", s |-> <<"5", "2", "4", "2", "8", "8", "0">>, n |-> 0],
      [kind |-> "string", s |-> <<"5", "2", "4", "2", "8", "8", "0", "x">>, n |-> 0],
      [kind |-> "string", s |-> <<>>, n |-> 0],
      [kind |-> "float", s |-> <<"6", "e", "+", "0", "6">>, n |-> 0],
      [kind |-> "float", s |-> <<"5", "2", "4", "2", "8", "8", "0", ".", "5">>, n |-> 0],
      [kind |-> "int", s |-> <<>>, n |-> 5242879],
      [kind |-> "int", s |-> <<>>, n |-> 5242880],
      [kind |-> "int", s |-> <<>>, n |-> 104857600],
      [kind |-> "int", s |-> <<>>, n |-> 104857601],
      [kind |-> "int", s |-> <<>>, n |-> -5242880] }
ConcurrencyParams ==
    { [kind |-> "nil", s |-> <<>>, n |-> 0], [kind |-> "int", s |-> <<>>, n |-> 0] }
SecureParams ==
    { [kind |-> "nil", s |-> <<>>, n |-> 0], [kind |-> "string", s |-> <<"x">>, n |-> 0] }
RootParams ==
    { [kind |-> "nil", s |-> <<>>, n |-> 0], [kind |-> "string", s |-> <<"/", "r">>, n |-> 0] }

\* the visit callback of a Walk fails at one of its first MaxVisits calls, or never
MaxVisits == 2

\* The driver never inspects a byte it stores.  The k-th byte handed to the
\* writer is the number k, and the k-th byte of a PutContent content is
\* 100 + k, so a lost, repeated or misplaced byte shows in the stored object.
Stream(from, n) == [i \in 1..n |-> from + i]

\* contents handed to PutContent: empty, exactly one chunk, one byte more
PutContents == { Stream(100, n) : n \in {0, d.ChunkSize, d.ChunkSize + 1} }

---------------------------------------------------------------------------
(* Errors *)

Err(kind, code, path) == [kind |-> kind, code |-> code, path |-> path]

Nil == Err("nil", "", <<>>)

\* *cos.ErrorResponse with a code, and an error that is no *cos.ErrorResponse
CosErr(code) == Err("cos.ErrorResponse", code, <<>>)
NetErr       == Err("net", "", <<>>)

BackendErrs == { CosErr("NoSuchKey"), NetErr }

\* fmt.Errorf(text)
LocalErr(text) == Err("fmt.Errorf", text, <<>>)

\* cos.go parseError
parseError(path, err) ==
    IF err = Nil THEN Nil
    ELSE IF err.kind = "cos.ErrorResponse"
         THEN CASE err.code = "NoSuchKey"      -> Err("PathNotFoundError", "", path)
                [] err.code = "AccessDenied"   -> Err("fmt.Errorf", "access denied", <<>>)
                [] err.code = "BucketNotFound" -> Err("fmt.Errorf", "bucket not found", <<>>)
                [] OTHER                       -> Err("fmt.Errorf cos error", err.code, <<>>)
         ELSE err

\* part_001 parseError
parseErrorP1(path, err) ==
    IF err.kind = "cos.ErrorResponse" /\ err.code \in {"NoSuchKey", "NoSuchBucket"}
    THEN Err("PathNotFoundError", "", path)
    ELSE Err("storagedriver.Error", err.code, <<>>)

---------------------------------------------------------------------------
(* Path mapping *)

\* strings.TrimPrefix(s, "/")
TrimPrefixSlash(s) == IF Len(s) > 0 /\ Head(s) = "/" THEN Tail(s) ELSE s

\* strings.TrimLeft(s, "/")
RECURSIVE TrimLeftSlash(_)
TrimLeftSlash(s) == IF Len(s) > 0 /\ Head(s) = "/" THEN TrimLeftSlash(Tail(s)) ELSE s

\* cos.go driver.cosPath
cosPath(path) ==
    IF d.RootDirectory = <<>> THEN TrimPrefixSlash(path)
    ELSE TrimPrefixSlash(d.RootDirectory \o path)

\* part_001 driver.cosPath
cosPathP1(path) ==
    IF d.RootDirectory = <<>> THEN TrimLeftSlash(path)
    ELSE TrimLeftSlash(d.RootDirectory \o <<"/">> \o TrimLeftSlash(path))

---------------------------------------------------------------------------
(* The object store.  A call in progress is a record                       *)
(*   st = [w, objects, uploads, reqs, err]                                  *)
(* and every operation maps st to the SET of records it can end in: one    *)
(* for the request succeeding, one for each way it can fail.               *)

\* a request as logged: what was asked, of which key, and the error it returned
Req(op, key, err) == [op |-> op, key |-> key, err |-> err]

\* the request op(key) fails: nothing changes in the store
Failed(st, op, key) ==
    { [st EXCEPT !.reqs = Append(@, Req(op, key, e)), !.err = e] : e \in BackendErrs }

\* the ETag of a part identifies its content
ETag(data) == data

\* Object.Put
ObjectPut(st, key, data) ==
    { [st EXCEPT !.objects = (key :> data) @@ @,
                 !.reqs = Append(@, Req("Put", key, Nil)), !.err = Nil] }
    \cup Failed(st, "Put", key)

\* Object.InitiateMultipartUpload: the new session's id is returned in w.uploadID
\* by the callers below; ids are 1, 2, ... and 0 stands for the empty string
NewUploadID(st) == Len(st.uploads) + 1

ObjectInitiateMultipartUpload(st, key) ==
    { [st EXCEPT !.uploads = Append(@, [key |-> key, parts |-> <<>>, state |-> "open"]),
                 !.reqs = Append(@, Req("InitiateMultipartUpload", key, Nil)), !.err = Nil] }
    \cup Failed(st, "InitiateMultipartUpload", key)

SessionOpen(st, uploadID) ==
    uploadID \in DOMAIN st.uploads /\ st.uploads[uploadID].state = "open"

\* Object.UploadPart: stores (or replaces) part `partNumber` of an open session
ObjectUploadPart(st, key, uploadID, partNumber, data) ==
    (IF SessionOpen(st, uploadID)
     THEN { [st EXCEPT !.uploads[uploadID].parts = (partNumber :> data) @@ @,
                       !.reqs = Append(@, Req("UploadPart", key, Nil)), !.err = Nil] }
     ELSE {})
    \cup Failed(st, "UploadPart", key)

RECURSIVE Assemble(_, _)
Assemble(stored, parts) ==
    IF parts = <<>> THEN <<>>
    ELSE stored[Head(parts).PartNumber] \o Assemble(stored, Tail(parts))

\* the part list of a complete request is acceptable: every part was uploaded
\* with that ETag, and the part numbers ascend
PartsAcceptable(stored, parts) ==
    /\ \A i \in DOMAIN parts :
          /\ parts[i].PartNumber \in DOMAIN stored
          /\ parts[i].ETag = ETag(stored[parts[i].PartNumber])
    /\ \A i, j \in DOMAIN parts : i < j => parts[i].PartNumber < parts[j].PartNumber

\* Object.CompleteMultipartUpload: the object becomes the listed parts in order.
\* Whether the store accepts an empty part list is not fixed by the driver:
\* both outcomes are possible (accepting it yields a zero-length object).
ObjectCompleteMultipartUpload(st, key, uploadID, parts) ==
    (IF SessionOpen(st, uploadID) /\ PartsAcceptable(st.uploads[uploadID].parts, parts)
     THEN { [st EXCEPT !.objects = (key :> Assemble(st.uploads[uploadID].parts, parts)) @@ @,
                       !.uploads[uploadID].state = "completed",
                       !.reqs = Append(@, Req("CompleteMultipartUpload", key, Nil)), !.err = Nil] }
     ELSE {})
    \cup Failed(st, "CompleteMultipartUpload", key)

\* Object.AbortMultipartUpload
ObjectAbortMultipartUpload(st, key, uploadID) ==
    (IF SessionOpen(st, uploadID)
     THEN { [st EXCEPT !.uploads[uploadID].state = "aborted",
                       !.reqs = Append(@, Req("AbortMultipartUpload", key, Nil)), !.err = Nil] }
     ELSE {})
    \cup Failed(st, "AbortMultipartUpload", key)

Drop(s, n) == SubSeq(s, n + 1, Len(s))

\* Object.Get with "Range: bytes=offset-" (cos.go sends no Range header when
\* offset = 0): the body, carried in data, is the content from `offset` on
ObjectGet(st, key, offset) ==
    (IF key \in DOMAIN st.objects
     THEN { [st EXCEPT !.reqs = Append(@, Req("Get", key, Nil)), !.err = Nil]
            @@ [data |-> Drop(st.objects[key], offset)] }
     ELSE { [st EXCEPT !.reqs = Append(@, Req("Get", key, CosErr("NoSuchKey"))),
                       !.err = CosErr("NoSuchKey")]
            @@ [data |-> <<>>] })
    \cup { f @@ [data |-> <<>>] : f \in Failed(st, "Get", key) }

\* Object.Head: Content-Length is carried in length
ObjectHead(st, key) ==
    (IF key \in DOMAIN st.objects
     THEN { [st EXCEPT !.reqs = Append(@, Req("Head", key, Nil)), !.err = Nil]
            @@ [length |-> Len(st.objects[key])] }
     ELSE { [st EXCEPT !.reqs = Append(@, Req("Head", key, CosErr("NoSuchKey"))),
                       !.err = CosErr("NoSuchKey")]
            @@ [length |-> 0] })
    \cup { f @@ [length |-> 0] : f \in Failed(st, "Head", key) }

---------------------------------------------------------------------------
(* Strings, as sequences of one-character strings *)

\* byte order of the characters that occur in paths and keys
Ord(ch) ==
    CASE ch = "/" -> 0 [] ch = "a" -> 1 [] ch = "b" -> 2 [] ch = "c" -> 3
      [] ch = "d" -> 4 [] ch = "r" -> 5 [] OTHER -> 6

\* s < t in byte order (the order in which the store lists keys)
RECURSIVE Less(_, _)
Less(s, t) ==
    IF t = <<>> THEN FALSE
    ELSE IF s = <<>> THEN TRUE
    ELSE IF Head(s) = Head(t) THEN Less(Tail(s), Tail(t))
    ELSE Ord(Head(s)) < Ord(Head(t))

\* strings.HasPrefix, strings.TrimPrefix, strings.HasSuffix, strings.TrimSuffix
HasPrefix(s, pre)  == Len(pre) <= Len(s) /\ SubSeq(s, 1, Len(pre)) = pre
TrimPrefix(s, pre) == IF HasPrefix(s, pre) THEN Drop(s, Len(pre)) ELSE s
HasSuffix(s, suf)  == Len(suf) <= Len(s) /\ SubSeq(s, Len(s) - Len(suf) + 1, Len(s)) = suf
TrimSuffix(s, suf) == IF HasSuffix(s, suf) THEN SubSeq(s, 1, Len(s) - Len(suf)) ELSE s

\* the strings of the set S in ascending byte order
RECURSIVE Sorted(_)
Sorted(S) ==
    IF S = {} THEN <<>>
    ELSE LET m == CHOOSE x \in S : \A y \in S \ {x} : Less(x, y)
         IN  <<m>> \o Sorted(S \ {m})

Min(a, b) == IF a <= b THEN a ELSE b

\* the elements of the sequence s that satisfy keep, in order
RECURSIVE Select(_, _)
Select(s, keep) ==
    IF s = <<>> THEN <<>>
    ELSE (IF Head(s) \in keep THEN <<Head(s)>> ELSE <<>>) \o Select(Tail(s), keep)

---------------------------------------------------------------------------
(* The object store: listing and deleting *)

\* the call record without what an earlier request returned beside it
St(o) == [w |-> o.w, objects |-> o.objects, uploads |-> o.uploads,
          reqs |-> o.reqs, err |-> o.err]

\* what a key contributes to a listing of `prefix`: itself, or with a
\* delimiter and a "/" after the prefix, the common prefix up to that "/"
ListEntry(key, prefix, delimiter) ==
    LET rest   == Drop(key, Len(prefix))
        slashs == { i \in DOMAIN rest : rest[i] = "/" }
    IN  IF delimiter /\ slashs # {}
        THEN LET first == CHOOSE i \in slashs : \A j \in slashs : i <= j
             IN  prefix \o SubSeq(rest, 1, first)
        ELSE key

\* Bucket.Get: one page of the listing of `prefix`.  The entries (keys and
\* common prefixes) after `marker` are returned in byte order, at most maxKeys
\* of them and at most as many as the store puts on a page; a truncated page
\* names its last entry as NextMarker.
BucketGet(st, prefix, delimiter, maxKeys, marker) ==
    LET keys    == { k \in DOMAIN st.objects : HasPrefix(k, prefix) }
        entries == { ListEntry(k, prefix, delimiter) : k \in keys }
        after   == Sorted({ e \in entries : marker = <<>> \/ Less(marker, e) })
        page(n) == SubSeq(after, 1, Min(n, Len(after)))
    IN  { [st EXCEPT !.reqs = Append(@, Req("BucketGet", prefix, Nil)), !.err = Nil]
          @@ [Contents       |-> Select(page(n), keys),
              CommonPrefixes |-> Select(page(n), entries \ keys),
              IsTruncated    |-> Len(after) > n,
              NextMarker     |-> IF Len(after) > n THEN after[n] ELSE <<>>] :
          n \in 1..Min(maxKeys, MaxPage) }
        \cup { f @@ [Contents |-> <<>>, CommonPrefixes |-> <<>>,
                     IsTruncated |-> FALSE, NextMarker |-> <<>>] :
               f \in Failed(st, "BucketGet", prefix) }

\* the bucket without the keys gone
Without(objs, gone) == [k \in DOMAIN objs \ gone |-> objs[k]]

\* Object.Delete: of a key that does not exist, the store either reports
\* success or that there is no such key
ObjectDelete(st, key) ==
    { [st EXCEPT !.objects = Without(@, {key}),
                 !.reqs = Append(@, Req("Delete", key, Nil)), !.err = Nil] }
    \cup (IF key \in DOMAIN st.objects THEN {}
          ELSE { [st EXCEPT !.reqs = Append(@, Req("Delete", key, CosErr("NoSuchKey"))),
                            !.err = CosErr("NoSuchKey")] })
    \cup Failed(st, "Delete", key)

\* Object.DeleteMulti of the keys of the sequence `keys`; the request is
\* logged under its first key.  A request that completes deletes the keys it
\* could delete and reports each of the others in the Errors of its result:
\* a reported key is logged as a DeleteMultiError.
ObjectDeleteMulti(st, keys) ==
    { LET f == Select(keys, failed)
      IN  [st EXCEPT !.objects = Without(@, { keys[i] : i \in DOMAIN keys } \ failed),
                     !.reqs = Append(@, Req("DeleteMulti", keys[1], Nil))
                              \o [i \in DOMAIN f |->
                                     Req("DeleteMultiError", f[i], CosErr("AccessDenied"))],
                     !.err = Nil] :
      failed \in SUBSET { keys[i] : i \in DOMAIN keys } }
    \cup Failed(st, "DeleteMulti", keys[1])

\* Object.Copy(destKey, sourceURL): a server-side copy of the object that
\* sourceURL refers to.  The store is taken to resolve the reference to the
\* key it ends in; a copy that fails leaves the bucket as it was.
ObjectCopy(st, destKey, sourceURL) ==
    (IF sourceURL.key \in DOMAIN st.objects
     THEN { [st EXCEPT !.objects = (destKey :> st.objects[sourceURL.key]) @@ @,
                       !.reqs = Append(@, Req("Copy", destKey, Nil)), !.err = Nil] }
     ELSE { [st EXCEPT !.reqs = Append(@, Req("Copy", destKey, CosErr("NoSuchKey"))),
                       !.err = CosErr("NoSuchKey")] })
    \cup Failed(st, "Copy", destKey)

---------------------------------------------------------------------------
(* cos.go: configuration.  A parameter of the map is nil (absent), a string, *)
(* an int, a bool, or a float given by the text fmt.Sprint prints for it.    *)

defaultChunkSize      == 16777216
minChunkSize          == 5242880
maxChunkSize          == 104857600
defaultMaxConcurrency == 10
minConcurrency        == 1

NilParam     == [kind |-> "nil",    s |-> <<>>, n |-> 0]
StrParam(s)  == [kind |-> "string", s |-> s,    n |-> 0]
IntParam(n)  == [kind |-> "int",    s |-> <<>>, n |-> n]
BoolParam(b) == [kind |-> "bool",   s |-> <<>>, n |-> IF b THEN 1 ELSE 0]
FloatParam(text) == [kind |-> "float", s |-> text, n |-> 0]

Digits == <<"0", "1", "2", "3", "4", "5", "6", "7", "8", "9">>
IsDigit(ch)  == \E i \in DOMAIN Digits : Digits[i] = ch
DigitVal(ch) == (CHOOSE i \in DOMAIN Digits : Digits[i] = ch) - 1

\* strconv.Itoa of a natural number
RECURSIVE Itoa(_)
Itoa(n) == IF n < 10 THEN <<Digits[n + 1]>> ELSE Itoa(n \div 10) \o <<Digits[(n % 10) + 1]>>

\* fmt.Sprint of a parameter
Sprint(v) ==
    CASE v.kind = "string" -> v.s
      [] v.kind = "int"    -> IF v.n < 0 THEN <<"-">> \o Itoa(-v.n) ELSE Itoa(v.n)
      [] v.kind = "bool"   -> IF v.n = 1 THEN <<"t", "r", "u", "e">> ELSE <<"f", "a", "l", "s", "e">>
      [] v.kind = "float"  -> v.s
      [] OTHER             -> <<"<", "n", "i", "l", ">">>

\* the value of a sequence of digits
RECURSIVE DigitsVal(_)
DigitsVal(s) == IF s = <<>> THEN 0 ELSE 10 * DigitsVal(SubSeq(s, 1, Len(s) - 1)) + DigitVal(s[Len(s)])

\* strconv.Atoi: an optional sign and then digits only, at least one
Atoi(s) ==
    LET body == IF s # <<>> /\ Head(s) \in {"+", "-"} THEN Tail(s) ELSE s
    IN  IF body = <<>> \/ \E i \in DOMAIN body : ~IsDigit(body[i])
        THEN [n |-> 0, err |-> LocalErr("strconv.Atoi: invalid syntax")]
        ELSE [n |-> IF Head(s) = "-" THEN -DigitsVal(body) ELSE DigitsVal(body), err |-> Nil]

\* strconv.ParseBool
ParseBool(s) ==
    IF s \in { <<"1">>, <<"t">>, <<"T">>, <<"t", "r", "u", "e">>, <<"T", "R", "U", "E">>,
               <<"T", "r", "u", "e">> }
    THEN [b |-> TRUE, err |-> Nil]
    ELSE IF s \in { <<"0">>, <<"f">>, <<"F">>, <<"f", "a", "l", "s", "e">>,
                    <<"F", "A", "L", "S", "E">>, <<"F", "a", "l", "s", "e">> }
    THEN [b |-> FALSE, err |-> Nil]
    ELSE [b |-> FALSE, err |-> LocalErr("strconv.ParseBool: invalid syntax")]

NoParams ==
    [SecretID |-> <<>>, SecretKey |-> <<>>, Region |-> <<>>, Bucket |-> <<>>,
     RootDirectory |-> <<>>, ChunkSize |-> 0, MaxConcurrency |-> 0, Secure |-> FALSE]

\* a required parameter is missing when it is nil or prints as the empty string
Missing(v) == v.kind = "nil" \/ Sprint(v) = <<>>

\* a parseParameters that takes any integer for a chunk size
ParseParametersAnySize(parameters) ==
    LET cs == Atoi(Sprint(parameters.chunksize))
    IN  IF Missing(parameters.secretid) \/ Missing(parameters.secretkey)
           \/ Missing(parameters.region) \/ Missing(parameters.bucket)
        THEN [err |-> LocalErr("no parameter provided"), params |-> NoParams]
        ELSE IF parameters.chunksize.kind # "nil" /\ cs.err # Nil
        THEN [err |-> LocalErr("chunksize parameter must be an integer"), params |-> NoParams]
        ELSE [err |-> Nil,
              params |-> [NoParams EXCEPT
                  !.SecretID = Sprint(parameters.secretid),
                  !.SecretKey = Sprint(parameters.secretkey),
                  !.Region = Sprint(parameters.region),
                  !.Bucket = Sprint(parameters.bucket),
                  !.ChunkSize = IF parameters.chunksize.kind = "nil"
                                THEN defaultChunkSize ELSE cs.n]]

\* cos.go parseParameters: the error, and the DriverParameters when it is nil
parseParameters(parameters) ==
    LET cs == Atoi(Sprint(parameters.chunksize))
        mc == Atoi(Sprint(parameters.maxconcurrency))
        sb == ParseBool(parameters.secure.s)
        fail(text) == [err |-> LocalErr(text), params |-> NoParams]
    IN  IF Missing(parameters.secretid) THEN fail("no secretid parameter provided")
        ELSE IF Missing(parameters.secretkey) THEN fail("no secretkey parameter provided")
        ELSE IF Missing(parameters.region) THEN fail("no region parameter provided")
        ELSE IF Missing(parameters.bucket) THEN fail("no bucket parameter provided")
        ELSE IF parameters.chunksize.kind # "nil" /\ cs.err # Nil
        THEN fail("chunksize parameter must be an integer")
        ELSE IF parameters.chunksize.kind # "nil" /\ cs.n < minChunkSize
        THEN fail("chunksize must be at least minChunkSize")
        ELSE IF parameters.chunksize.kind # "nil" /\ cs.n > maxChunkSize
        THEN fail("chunksize must be at most maxChunkSize")
        ELSE IF parameters.maxconcurrency.kind # "nil" /\ mc.err # Nil
        THEN fail("maxconcurrency parameter must be an integer")
        ELSE IF parameters.maxconcurrency.kind # "nil" /\ mc.n < minConcurrency
        THEN fail("maxconcurrency must be at least minConcurrency")
        ELSE IF parameters.secure.kind = "string" /\ sb.err # Nil
        THEN fail("secure parameter must be a boolean")
        ELSE IF parameters.secure.kind \notin {"nil", "string", "bool"}
        THEN fail("secure parameter must be a boolean")
        ELSE [err |-> Nil,
              params |->
                [SecretID       |-> Sprint(parameters.secretid),
                 SecretKey      |-> Sprint(parameters.secretkey),
                 Region         |-> Sprint(parameters.region),
                 Bucket         |-> Sprint(parameters.bucket),
                 RootDirectory  |-> IF parameters.rootdirectory.kind = "nil" THEN <<>>
                                    ELSE Sprint(parameters.rootdirectory),
                 ChunkSize      |-> IF parameters.chunksize.kind = "nil"
                                    THEN defaultChunkSize ELSE cs.n,
                 MaxConcurrency |-> IF parameters.maxconcurrency.kind = "nil"
                                    THEN defaultMaxConcurrency ELSE mc.n,
                 Secure         |-> CASE parameters.secure.kind = "nil"    -> TRUE
                                      [] parameters.secure.kind = "string" -> sb.b
                                      [] OTHER -> parameters.secure.n = 1]]

\* Bucket.Head, the request New tests the access to the bucket with
BucketHead(st) ==
    { [st EXCEPT !.reqs = Append(@, Req("BucketHead", <<>>, Nil)), !.err = Nil] }
    \cup Failed(st, "BucketHead", <<>>)

\* cos.go New: the outcomes carry the DriverParameters of the driver in params
New(st, params) ==
    { IF h.err # Nil
      THEN [h EXCEPT !.err = LocalErr("unable to access bucket")] @@ [params |-> NoParams]
      ELSE h @@ [params |-> params] :
      h \in BucketHead(st) }

\* cos.go FromParameters
FromParameters(st, parameters) ==
    LET p == parseParameters(parameters)
    IN  IF p.err # Nil THEN { [st EXCEPT !.err = p.err] @@ [params |-> NoParams] }
        ELSE New(st, p.params)

---------------------------------------------------------------------------
(* cos.go: the writer *)

\* the zero writer; hist.created tells whether a FileWriter was returned
NoWriter ==
    [key |-> <<>>, uploadID |-> 0, parts |-> <<>>, size |-> 0, buf |-> <<>>,
     closed |-> FALSE, committed |-> FALSE, cancelled |-> FALSE, ctx |-> ""]

\* A context is named after the call it was handed to: "Writer" is the context
\* of the driver.Writer call that made the writer, "call" the context of the
\* call in progress.  st.done is the set of contexts that are cancelled.
Canceled == Err("context.Canceled", "", <<>>)

\* a request bound to the context ctx: made under a cancelled context it fails
\* with the cancellation and has no effect
WithContext(st, ctx, op, key, outcomes) ==
    IF ctx \in st.done
    THEN { [st EXCEPT !.reqs = Append(@, Req(op, key, Canceled)), !.err = Canceled] }
    ELSE outcomes

\* cos.go driver.newWriter
newWriter(ctx, key, uploadID, parts) ==
    [NoWriter EXCEPT !.ctx = ctx, !.key = key, !.uploadID = uploadID, !.parts = parts]

\* an uploadPart that numbers a part by the bytes written so far
UploadPartNumberedBySize(st) ==
    IF Len(st.w.buf) = 0 THEN { [st EXCEPT !.err = Nil] }
    ELSE LET partNumber == st.w.size
             data       == st.w.buf
             st1        == [st EXCEPT !.w.buf = <<>>]
         IN  { IF o.err # Nil THEN o
               ELSE [o EXCEPT !.w.parts =
                        Append(@, [PartNumber |-> partNumber, ETag |-> ETag(data)])] :
               o \in ObjectUploadPart(st1, st1.w.key, st1.w.uploadID, partNumber, data) }

\* cos.go writer.uploadPart: the whole buffer goes out as one part; the buffer
\* is reset before the request is made, and the request is bound to w.ctx
uploadPart(st) ==
    IF Len(st.w.buf) = 0 THEN { [st EXCEPT !.err = Nil] }
    ELSE LET partNumber == Len(st.w.parts) + 1
             data       == st.w.buf
             st1        == [st EXCEPT !.w.buf = <<>>]
         IN  { IF o.err # Nil THEN o
               ELSE [o EXCEPT !.w.parts =
                        Append(@, [PartNumber |-> partNumber, ETag |-> ETag(data)])] :
               o \in WithContext(st1, st1.w.ctx, "UploadPart", st1.w.key,
                       ObjectUploadPart(st1, st1.w.key, st1.w.uploadID, partNumber, data)) }

\* cos.go writer.Write, lines 574-579: for w.buf.Len() >= ChunkSize { uploadPart }
RECURSIVE WriteFlush(_)
WriteFlush(st) ==
    IF Len(st.w.buf) >= d.ChunkSize
    THEN UNION { IF o.err # Nil THEN {o} ELSE WriteFlush(o) : o \in uploadPart(st) }
    ELSE { [st EXCEPT !.err = Nil] }

\* cos.go writer.Write: the outcomes carry the returned count in n
Write(st, p) ==
    IF st.w.closed THEN { [st EXCEPT !.err = LocalErr("already closed")] @@ [n |-> 0] }
    ELSE IF st.w.cancelled THEN { [st EXCEPT !.err = LocalErr("already cancelled")] @@ [n |-> 0] }
    ELSE IF st.w.committed THEN { [st EXCEPT !.err = LocalErr("already committed")] @@ [n |-> 0] }
    ELSE LET n   == Len(p)
             st1 == [st EXCEPT !.w.buf = @ \o p, !.w.size = @ + n]
         IN  { o @@ [n |-> n] : o \in WriteFlush(st1) }

\* cos.go writer.Size
Size(wr) == wr.size

\* Close as Cancel would do it: the upload session is aborted as well
CloseAborts(st) ==
    IF st.w.closed THEN { [st EXCEPT !.err = Nil] }
    ELSE ObjectAbortMultipartUpload([st EXCEPT !.w.closed = TRUE, !.w.buf = <<>>],
                                    st.w.key, st.w.uploadID)

\* cos.go writer.Close (the buffer goes back to the pool)
Close(st) ==
    IF st.w.closed THEN { [st EXCEPT !.err = Nil] }
    ELSE { [st EXCEPT !.w.closed = TRUE, !.w.buf = <<>>, !.err = Nil] }

\* Cancel that only asks the backend to abort and leaves the writer as it was
CancelAbortOnly(st) ==
    IF st.w.closed THEN { [st EXCEPT !.err = Nil] }
    ELSE ObjectAbortMultipartUpload(st, st.w.key, st.w.uploadID)

\* cos.go writer.Cancel
Cancel(st) ==
    IF st.w.closed THEN { [st EXCEPT !.err = Nil] }
    ELSE LET st1 == [st EXCEPT !.w.cancelled = TRUE]
         IN  UNION { WithContext(c, "call", "AbortMultipartUpload", c.w.key,
                                 ObjectAbortMultipartUpload(c, c.w.key, c.w.uploadID)) :
                     c \in Close(st1) }

\* Commit that completes the upload without storing what is still buffered
CommitNoFlush(st) ==
    IF st.w.closed /\ ~st.w.committed /\ ~st.w.cancelled
    THEN { [st EXCEPT !.err = LocalErr("already closed")] }
    ELSE IF st.w.committed THEN { [st EXCEPT !.err = LocalErr("already committed")] }
    ELSE IF st.w.cancelled THEN { [st EXCEPT !.err = LocalErr("already cancelled")] }
    ELSE UNION {
           IF c.err # Nil THEN {c}
           ELSE Close([c EXCEPT !.w.committed = TRUE]) :
           c \in ObjectCompleteMultipartUpload(st, st.w.key, st.w.uploadID, st.w.parts) }

\* cos.go writer.Commit
Commit(st) ==
    IF st.w.closed /\ ~st.w.committed /\ ~st.w.cancelled
    THEN { [st EXCEPT !.err = LocalErr("already closed")] }
    ELSE IF st.w.committed THEN { [st EXCEPT !.err = LocalErr("already committed")] }
    ELSE IF st.w.cancelled THEN { [st EXCEPT !.err = LocalErr("already cancelled")] }
    ELSE UNION {
           IF u.err # Nil THEN {u}
           ELSE UNION {
                  IF c.err # Nil THEN {c}
                  ELSE Close([c EXCEPT !.w.committed = TRUE]) :
                  c \in WithContext(u, "call", "CompleteMultipartUpload", u.w.key,
                          ObjectCompleteMultipartUpload(u, u.w.key, u.w.uploadID,
                                                        u.w.parts)) } :
           u \in uploadPart(st) }

\* cos.go driver.Writer, lines 272-276 and 286-290: start a multipart upload
\* and return a writer on it; the outcomes carry whether a writer is returned
WriterInitiate(st, path, key) ==
    { IF o.err # Nil THEN [o EXCEPT !.err = parseError(path, o.err)] @@ [ok |-> FALSE]
      ELSE [o EXCEPT !.w = newWriter("Writer", key, NewUploadID(st), <<>>)] @@ [ok |-> TRUE] :
      o \in ObjectInitiateMultipartUpload(st, key) }

\* Writer that refuses every append, whether or not an object exists
WriterRejectsAppend(st, path, append) ==
    LET key == cosPath(path)
    IN  IF ~append THEN WriterInitiate(st, path, key)
        ELSE { [w |-> h.w, objects |-> h.objects, uploads |-> h.uploads, reqs |-> h.reqs,
                err |-> LocalErr("append mode not supported for existing objects"),
                ok |-> FALSE] :
               h \in ObjectHead(st, key) }

\* cos.go driver.Writer
Writer(st, path, append) ==
    LET key == cosPath(path)
    IN  IF ~append THEN WriterInitiate(st, path, key)
        ELSE UNION {
               IF h.err # Nil
               THEN WriterInitiate([w |-> h.w, objects |-> h.objects, uploads |-> h.uploads,
                                    reqs |-> h.reqs, err |-> Nil], path, key)
               ELSE { [w |-> h.w, objects |-> h.objects, uploads |-> h.uploads, reqs |-> h.reqs,
                       err |-> LocalErr("append mode not supported for existing objects"),
                       ok |-> FALSE] } :
               h \in ObjectHead(st, key) }

\* cos.go driver.Reader: the outcomes carry in data what the returned body yields
Reader(st, path, offset) ==
    { [o EXCEPT !.err = parseError(path, o.err)] : o \in ObjectGet(st, cosPath(path), offset) }

\* cos.go driver.GetContent
GetContent(st, path) == Reader(st, path, 0)

\* cos.go driver.PutContent
PutContent(st, path, content) ==
    { [o EXCEPT !.err = parseError(path, o.err)] : o \in ObjectPut(st, cosPath(path), content) }

---------------------------------------------------------------------------
(* cos.go: Stat, List, Delete *)

\* storagedriver.FileInfoFields, and the nil FileInfo
FileInfo(path, size, isDir) == [Path |-> path, Size |-> size, IsDir |-> isDir]
NoInfo == FileInfo(<<>>, 0, FALSE)

\* a Stat that knows objects only
StatObjectsOnly(st, path) ==
    { IF h.err # Nil
      THEN [St(h) EXCEPT !.err = parseError(path, h.err)] @@ [info |-> NoInfo]
      ELSE St(h) @@ [info |-> FileInfo(path, h.length, FALSE)] :
      h \in ObjectHead(st, cosPath(path)) }

\* cos.go driver.Stat: the outcomes carry the FileInfo in info
Stat(st, path) ==
    LET key == cosPath(path)
    IN  UNION {
          IF h.err # Nil
          THEN { IF l.err # Nil
                 THEN [St(l) EXCEPT !.err = parseError(path, h.err)] @@ [info |-> NoInfo]
                 ELSE IF Len(l.Contents) > 0 \/ Len(l.CommonPrefixes) > 0
                 THEN [St(l) EXCEPT !.err = Nil] @@ [info |-> FileInfo(path, 0, TRUE)]
                 ELSE [St(l) EXCEPT !.err = parseError(path, h.err)] @@ [info |-> NoInfo] :
                 l \in BucketGet(St(h), key \o <<"/">>, TRUE, 1, <<>>) }
          ELSE { St(h) @@ [info |-> FileInfo(path, h.length, FALSE)] } :
          h \in ObjectHead(st, key) }

\* cos.go driver.List, lines 383-407: the names one page adds to files
ListSlashed(name) == IF HasPrefix(name, <<"/">>) THEN name ELSE <<"/">> \o name

RECURSIVE ListFiles(_, _)
ListFiles(contents, path) ==
    IF contents = <<>> THEN <<>>
    ELSE LET name == ListSlashed(TrimPrefix(Head(contents), d.RootDirectory))
         IN  (IF name # path THEN <<name>> ELSE <<>>) \o ListFiles(Tail(contents), path)

RECURSIVE ListDirs(_, _)
ListDirs(prefixes, path) ==
    IF prefixes = <<>> THEN <<>>
    ELSE LET name == TrimSuffix(ListSlashed(TrimPrefix(Head(prefixes), d.RootDirectory)),
                                <<"/">>)
         IN  (IF name # <<>> /\ name # path THEN <<name>> ELSE <<>>)
             \o ListDirs(Tail(prefixes), path)

\* cos.go driver.List, lines 377-414: the loop over the pages
RECURSIVE ListLoop(_, _, _, _, _)
ListLoop(st, prefix, path, marker, files) ==
    UNION {
      IF r.err # Nil
      THEN { [St(r) EXCEPT !.err = parseError(path, r.err)] @@ [files |-> <<>>] }
      ELSE LET files1 == files \o ListFiles(r.Contents, path)
                               \o ListDirs(r.CommonPrefixes, path)
           IN  IF ~r.IsTruncated
               THEN { St(r) @@ [files |-> files1] }
               ELSE ListLoop(St(r), prefix, path, r.NextMarker, files1) :
      r \in BucketGet(st, prefix, TRUE, cosMaxKeys, marker) }

\* a List that reports a path with nothing beneath it as missing
ListNotFoundWhenEmpty(st, opath) ==
    { IF o.err = Nil /\ o.files = <<>>
      THEN [St(o) EXCEPT !.err = parseError(opath, CosErr("NoSuchKey"))] @@ [files |-> <<>>]
      ELSE o :
      o \in ListLoop(st, IF opath = <<"/">> THEN cosPath(<<"/">>)
                         ELSE cosPath(opath) \o <<"/">>,
                     opath, <<>>, <<>>) }

\* cos.go driver.List: the outcomes carry the returned list in files
List(st, opath) ==
    LET path   == IF opath # <<"/">> /\ opath[Len(opath)] # "/"
                  THEN opath \o <<"/">> ELSE opath
        root   == IF d.RootDirectory # <<>> THEN d.RootDirectory \o <<"/">> ELSE <<>>
        prefix == IF path # <<"/">> THEN root \o TrimPrefix(path, <<"/">>) ELSE root
    IN  ListLoop(st, prefix, path, <<>>, <<>>)

\* cos.go driver.Delete, lines 458-487: list under the key and delete in batches
RECURSIVE DeleteLoop(_, _, _, _)
DeleteLoop(st, path, prefix, marker) ==
    UNION {
      IF r.err # Nil THEN { [St(r) EXCEPT !.err = parseError(path, r.err)] }
      ELSE UNION {
             IF x.err # Nil THEN { [x EXCEPT !.err = parseError(path, x.err)] }
             ELSE IF ~r.IsTruncated THEN { x }
             ELSE DeleteLoop(x, path, prefix, r.NextMarker) :
             x \in (IF Len(r.Contents) > 0 THEN ObjectDeleteMulti(St(r), r.Contents)
                    ELSE { St(r) }) } :
      r \in BucketGet(st, prefix, FALSE, cosMaxKeys, marker) }

\* cos.go driver.Delete
Delete(st, path) ==
    LET key == cosPath(path)
    IN  UNION { IF x.err = Nil THEN { x } ELSE DeleteLoop(x, path, key, <<>>) :
                x \in ObjectDelete(st, key) }

\* a Move that deletes the source whether or not the copy succeeded
MoveDeletesAnyway(st, sourcePath, destPath) ==
    UNION { IF c.err = Nil THEN ObjectDelete(c, cosPath(sourcePath))
            ELSE { [x EXCEPT !.err = parseError(sourcePath, c.err)] :
                   x \in ObjectDelete(c, cosPath(sourcePath)) } :
            c \in ObjectCopy(st, cosPath(destPath),
                             [host |-> "bucket.cos.bucket.cos.region.myqcloud.com.myqcloud.com",
                              key |-> cosPath(sourcePath)]) }

\* cos.go driver.Move
Move(st, sourcePath, destPath) ==
    LET sourceKey == cosPath(sourcePath)
        destKey   == cosPath(destPath)
        \* d.Bucket + ".cos." + d.Client.BaseURL.BucketURL.Host + ".myqcloud.com/" + sourceKey
        sourceURL == [host |-> "bucket.cos.bucket.cos.region.myqcloud.com.myqcloud.com",
                      key  |-> sourceKey]
    IN  UNION {
          IF c.err # Nil THEN { [c EXCEPT !.err = parseError(sourcePath, c.err)] }
          ELSE UNION {
                 IF x.err # Nil
                 THEN { [y EXCEPT !.err = parseError(sourcePath, x.err)] :
                        y \in ObjectDelete(x, destKey) }
                 ELSE { x } :
                 x \in ObjectDelete(c, sourceKey) } :
          c \in ObjectCopy(st, destKey, sourceURL) }

---------------------------------------------------------------------------
(* part_001: the writer.  w.buf is handed to the client as the request     *)
(* body (an io.Reader): a request that succeeds has read it to the end, a  *)
(* request that fails may or may not have read it.                         *)

\* part_001 driver.newWriter
newWriterP1(key, uploadID) == [NoWriter EXCEPT !.key = key, !.uploadID = uploadID]

\* part_001 writer.Size
SizeP1(wr) == wr.size + Len(wr.buf)

\* part_001 writer.Write
WriteP1(st, p) ==
    IF st.w.closed THEN { [st EXCEPT !.err = LocalErr("writer closed")] @@ [n |-> 0] }
    ELSE { [st EXCEPT !.w.buf = @ \o p, !.err = Nil] @@ [n |-> Len(p)] }

\* part_001 writer.Close
CloseP1(st) ==
    IF st.w.closed THEN { [st EXCEPT !.err = Nil] }
    ELSE { [st EXCEPT !.w.closed = TRUE, !.err = Nil] }

\* part_001 writer.Cancel: the outcome of the abort request is dropped
CancelP1(st) ==
    IF st.w.cancelled THEN { [st EXCEPT !.err = Nil] }
    ELSE LET st1 == [st EXCEPT !.w.cancelled = TRUE]
         IN  IF st1.w.uploadID # 0
             THEN { [o EXCEPT !.err = Nil] :
                    o \in ObjectAbortMultipartUpload(st1, st1.w.key, st1.w.uploadID) }
             ELSE { [st1 EXCEPT !.err = Nil] }

\* the client has read the request body w.buf: all of it on success, all or
\* nothing of it on failure
BodyRead(outcomes) ==
    UNION { IF o.err = Nil THEN { [o EXCEPT !.w.buf = <<>>] }
            ELSE { o, [o EXCEPT !.w.buf = <<>>] } : o \in outcomes }

\* part_001 writer.Commit, lines 674-706: the multipart path
CommitMultipartP1(st) ==
    LET initiated ==
            IF st.w.uploadID = 0
            THEN { IF o.err # Nil THEN o ELSE [o EXCEPT !.w.uploadID = NewUploadID(st)] :
                   o \in ObjectInitiateMultipartUpload(st, st.w.key) }
            ELSE { st }
        uploaded(i) ==
            IF Len(i.w.buf) > 0
            THEN LET partNumber == Len(i.w.parts) + 1
                     data       == i.w.buf
                 IN  { IF o.err # Nil THEN o
                       ELSE [o EXCEPT !.w.parts =
                                Append(@, [PartNumber |-> 0, ETag |-> ETag(data)])] :
                       o \in BodyRead(ObjectUploadPart(i, i.w.key, i.w.uploadID,
                                                       partNumber, data)) }
            ELSE { i }
        completeOpt(u) ==
            [k \in DOMAIN u.w.parts |-> [PartNumber |-> k, ETag |-> u.w.parts[k].ETag]]
    IN  UNION {
          IF i.err # Nil THEN {i}
          ELSE UNION {
                 IF u.err # Nil THEN {u}
                 ELSE ObjectCompleteMultipartUpload(u, u.w.key, u.w.uploadID, completeOpt(u)) :
                 u \in uploaded(i) } :
          i \in initiated }

\* part_001 writer.Commit
CommitP1(st) ==
    IF st.w.committed THEN { [st EXCEPT !.err = Nil] }
    ELSE IF st.w.cancelled THEN { [st EXCEPT !.err = LocalErr("writer cancelled")] }
    ELSE LET st1 == [st EXCEPT !.w.committed = TRUE, !.err = Nil]
         IN  IF Len(st1.w.buf) = 0
             THEN ObjectPut(st1, st1.w.key, <<>>)
             ELSE IF st1.w.uploadID = 0 /\ SizeP1(st1.w) <= d.ChunkSize
             THEN BodyRead(ObjectPut(st1, st1.w.key, st1.w.buf))
             ELSE CommitMultipartP1(st1)

\* part_001 driver.Writer
WriterP1(st, path, append) ==
    LET cosPath_ == cosPathP1(path)
        fresh(s) == [w |-> newWriterP1(cosPath_, 0), objects |-> s.objects,
                     uploads |-> s.uploads, reqs |-> s.reqs, err |-> Nil, ok |-> TRUE]
    IN  IF append
        THEN { IF h.err # Nil THEN fresh(h)
               ELSE IF h.length > 0
               THEN [w |-> h.w, objects |-> h.objects, uploads |-> h.uploads, reqs |-> h.reqs,
                     err |-> LocalErr("cos driver does not support appending to existing objects"),
                     ok |-> FALSE]
               ELSE fresh(h) :
               h \in ObjectHead(st, cosPath_) }
        ELSE { fresh(st) }

\* part_001 driver.PutContent: a writer of its own, written once and committed;
\* the caller's writer st.w is not involved
PutContentP1(st, path, contents) ==
    LET mine(o) == [o EXCEPT !.w = st.w]
    IN  UNION { UNION {
                 IF wr.err # Nil
                 THEN { mine([c EXCEPT !.err = wr.err]) :
                        c \in CancelP1([w |-> wr.w, objects |-> wr.objects,
                                        uploads |-> wr.uploads, reqs |-> wr.reqs, err |-> Nil]) }
                 ELSE { mine(cl) :
                        cl \in UNION { { [x EXCEPT !.err = c.err] : x \in CloseP1(c) } :
                                       c \in CommitP1([w |-> wr.w, objects |-> wr.objects,
                                                       uploads |-> wr.uploads, reqs |-> wr.reqs,
                                                       err |-> Nil]) } } :
                 wr \in WriteP1([w |-> o.w, objects |-> o.objects, uploads |-> o.uploads,
                                 reqs |-> o.reqs, err |-> Nil], contents) } :
               o \in WriterP1(st, path, FALSE) }

\* part_001 driver.Reader: the outcomes carry in data what the returned body yields
ReaderP1(st, path, offset) ==
    { IF o.err # Nil THEN [o EXCEPT !.err = parseErrorP1(path, o.err)] ELSE o :
      o \in ObjectGet(st, cosPathP1(path), offset) }

\* part_001 driver.GetContent
GetContentP1(st, path) == ReaderP1(st, path, 0)

---------------------------------------------------------------------------
(* part_001: Stat, List, Delete, Walk *)

PathNotFoundError(path) == Err("PathNotFoundError", "", path)

\* part_001 driver.Stat
StatP1(st, path) ==
    LET key == cosPathP1(path)
    IN  UNION {
          IF h.err = Nil
          THEN { St(h) @@ [info |-> FileInfo(path, h.length, FALSE)] }
          ELSE { IF l.err # Nil
                 THEN [St(l) EXCEPT !.err = parseErrorP1(path, l.err)] @@ [info |-> NoInfo]
                 ELSE IF Len(l.Contents) > 0
                 THEN [St(l) EXCEPT !.err = Nil] @@ [info |-> FileInfo(path, 0, TRUE)]
                 ELSE [St(l) EXCEPT !.err = PathNotFoundError(path)] @@ [info |-> NoInfo] :
                 l \in BucketGet(St(h), key \o <<"/">>, FALSE, 1, <<>>) } :
          h \in ObjectHead(st, key) }

\* part_001 driver.List, lines 410-428: the names one page adds to files
RECURSIVE ListFilesP1(_, _)
ListFilesP1(contents, prefix) ==
    IF contents = <<>> THEN <<>>
    ELSE LET name == IF prefix # <<>> THEN TrimPrefix(Head(contents), prefix)
                     ELSE Head(contents)
         IN  (IF name # <<>> THEN <<name>> ELSE <<>>) \o ListFilesP1(Tail(contents), prefix)

RECURSIVE ListDirsP1(_, _)
ListDirsP1(prefixes, prefix) ==
    IF prefixes = <<>> THEN <<>>
    ELSE LET name == TrimSuffix(TrimPrefix(Head(prefixes), prefix), <<"/">>)
         IN  (IF name # <<>> THEN <<name>> ELSE <<>>) \o ListDirsP1(Tail(prefixes), prefix)

\* part_001 driver.List, lines 400-434: the loop over the pages
RECURSIVE ListLoopP1(_, _, _, _, _)
ListLoopP1(st, prefix, opath, marker, files) ==
    UNION {
      IF r.err # Nil
      THEN { [St(r) EXCEPT !.err = parseErrorP1(opath, r.err)] @@ [files |-> <<>>] }
      ELSE LET files1 == files \o ListFilesP1(r.Contents, prefix)
                               \o ListDirsP1(r.CommonPrefixes, prefix)
           IN  IF ~r.IsTruncated
               THEN { St(r) @@ [files |-> files1] }
               ELSE ListLoopP1(St(r), prefix, opath, r.NextMarker, files1) :
      r \in BucketGet(st, prefix, TRUE, listMax, marker) }

\* part_001 driver.List
ListP1(st, opath) ==
    LET prefix == IF opath # <<"/">> THEN cosPathP1(opath) \o <<"/">> ELSE <<>>
    IN  ListLoopP1(st, prefix, opath, <<>>, <<>>)

\* part_001 driver.Delete, lines 468-497: list under key + "/" and delete in
\* batches; the outcomes carry in done whether the loop ended without error
RECURSIVE DeleteLoopP1(_, _, _, _)
DeleteLoopP1(st, path, prefix, marker) ==
    UNION {
      IF r.err # Nil
      THEN { [St(r) EXCEPT !.err = parseErrorP1(path, r.err)] @@ [done |-> FALSE] }
      ELSE IF Len(r.Contents) = 0 THEN { St(r) @@ [done |-> TRUE] }
      ELSE UNION {
             IF x.err # Nil
             THEN { [x EXCEPT !.err = parseErrorP1(path, x.err)] @@ [done |-> FALSE] }
             ELSE IF ~r.IsTruncated THEN { x @@ [done |-> TRUE] }
             ELSE DeleteLoopP1(x, path, prefix, r.NextMarker) :
             x \in ObjectDeleteMulti(St(r), r.Contents) } :
      r \in BucketGet(st, prefix, FALSE, listMax, marker) }

\* part_001 driver.Delete: the result of the final Object.Delete is dropped
DeleteP1(st, path) ==
    LET key == cosPathP1(path)
    IN  UNION { IF ~l.done THEN { St(l) }
                ELSE { [x EXCEPT !.err = Nil] : x \in ObjectDelete(St(l), key) } :
                l \in DeleteLoopP1(st, path, key \o <<"/">>, <<>>) }

\* part_001 driver.Move
MoveP1(st, sourcePath, destPath) ==
    LET cosSourcePath == cosPathP1(sourcePath)
        cosDestPath   == cosPathP1(destPath)
        \* d.Bucket + "/" + cosSourcePath
        sourceURL     == [host |-> "bucket", key |-> cosSourcePath]
    IN  UNION {
          IF c.err # Nil THEN { [c EXCEPT !.err = parseErrorP1(sourcePath, c.err)] }
          ELSE { IF x.err # Nil THEN [x EXCEPT !.err = parseErrorP1(sourcePath, x.err)]
                 ELSE x :
                 x \in ObjectDelete(c, cosSourcePath) } :
          c \in ObjectCopy(st, cosDestPath, sourceURL) }

\* filepath.Join(from, rel) for a clean path `from` and a relative `rel`
Join(from, rel) == IF from = <<"/">> THEN from \o rel ELSE from \o <<"/">> \o rel

\* the error the visit callback returns
VisitErr == Err("visit", "", <<>>)

\* a visit of the objects of one page that goes on after the callback failed
WalkPageKeepsOn(contents, prefix, from, visited, failAt) ==
    [visited |-> visited \o ListFilesP1(contents, prefix), failed |-> FALSE]

\* part_001 driver.Walk, lines 538-561: visit the objects of one page.  The
\* callback returns VisitErr at its failAt-th call (never if failAt = 0);
\* the result is the paths visited so far and whether the callback failed.
RECURSIVE WalkPageP1(_, _, _, _, _)
WalkPageP1(contents, prefix, from, visited, failAt) ==
    IF contents = <<>> THEN [visited |-> visited, failed |-> FALSE]
    ELSE LET objectPath == IF prefix # <<>> THEN TrimPrefix(Head(contents), prefix)
                           ELSE Head(contents)
         IN  IF objectPath = <<>>
             THEN WalkPageP1(Tail(contents), prefix, from, visited, failAt)
             ELSE LET visited1 == Append(visited, Join(from, objectPath))
                  IN  IF Len(visited1) = failAt
                      THEN [visited |-> visited1, failed |-> TRUE]
                      ELSE WalkPageP1(Tail(contents), prefix, from, visited1, failAt)

\* part_001 driver.Walk, lines 532-570: the loop over the pages; the outcomes
\* carry the paths the callback was called with and the last page listed
RECURSIVE WalkLoopP1(_, _, _, _, _, _)
WalkLoopP1(st, prefix, from, marker, visited, failAt) ==
    UNION {
      IF r.err # Nil
      THEN { [St(r) EXCEPT !.err = parseErrorP1(from, r.err)]
             @@ [visited |-> visited, lastPage |-> <<>>] }
      ELSE LET v == WalkPageP1(r.Contents, prefix, from, visited, failAt)
           IN  IF v.failed
               THEN { [St(r) EXCEPT !.err = VisitErr]
                      @@ [visited |-> v.visited, lastPage |-> r.Contents] }
               ELSE IF ~r.IsTruncated
               THEN { St(r) @@ [visited |-> v.visited, lastPage |-> r.Contents] }
               ELSE WalkLoopP1(St(r), prefix, from, r.NextMarker, v.visited, failAt) :
      r \in BucketGet(st, prefix, FALSE, listMax, marker) }

\* part_001 driver.Walk, without a StartAfterHint
WalkP1(st, from, failAt) ==
    LET key    == cosPathP1(from)
        prefix == IF key # <<>> /\ ~HasSuffix(key, <<"/">>) THEN key \o <<"/">> ELSE key
    IN  WalkLoopP1(st, prefix, from, <<>>, <<>>, failAt)

---------------------------------------------------------------------------
(* The calls a client makes.  Each action is one whole call: it starts     *)
(* from the current state Cur with an empty request log and ends in one of *)
(* the outcomes the handler can produce from Cur.                          *)

Cur == [w |-> w, objects |-> objects, uploads |-> uploads, reqs |-> <<>>, err |-> Nil,
        done |-> {}]

\* arg is the argument beside the path: append of Writer, failAt of Walk,
\* destPath of Move
Result(op, path, n, err, data, arg) ==
    [op |-> op, path |-> path, n |-> n, err |-> err, data |-> data, arg |-> arg]

\* the outcome o becomes the next state
Becomes(o) ==
    /\ w' = o.w
    /\ objects' = o.objects
    /\ uploads' = o.uploads
    /\ reqs' = o.reqs

\* what is known to be stored at a path is either a content or Unknown
Unknown == <<-1>>

\* some request of the kind op is in the request log rs
Asked(rs, op) == \E i \in DOMAIN rs : rs[i].op = op

\* the requests of the log rs that failed
FailedReqs(rs) == { i \in DOMAIN rs : rs[i].err # Nil }

\* a request of the log rs has ended an upload session: a
\* CompleteMultipartUpload that succeeded, or an AbortMultipartUpload
Ends(rs) ==
    \E i \in DOMAIN rs :
        \/ rs[i].op = "CompleteMultipartUpload" /\ rs[i].err = Nil
        \/ rs[i].op = "AbortMultipartUpload"

NoHist ==
    [created   |-> FALSE,  \* a FileWriter was returned by driver.Writer
     path      |-> <<>>,   \* the path it was created for
     existed   |-> FALSE,  \* an object existed at its key when it was created
     accepted  |-> 0,      \* sum of the counts Write has returned
     handed    |-> 0,      \* number of bytes handed to Write so far
     clean     |-> TRUE,   \* every call on the writer so far returned nil
     flushed   |-> FALSE,  \* some Write call has asked the backend to store a part
     cancelled |-> FALSE,  \* Cancel was called before any Commit returned nil
     commits   |-> 0,      \* number of Commit calls that returned nil (2 = two or more)
     finalized |-> FALSE,  \* a Put or CompleteMultipartUpload of a Commit has succeeded
     over      |-> FALSE,  \* a call has ended the upload session of the writer
     two       |-> [w2        |-> NoWriter,          \* the second writer of a path
                    made      |-> <<FALSE, FALSE>>,  \* per writer, what created is
                    handed    |-> <<0, 0>>,          \*   and handed
                    accepted  |-> <<0, 0>>,          \*   and accepted
                    committed |-> <<FALSE, FALSE>>,  \*   and a Commit returned nil
                    clean     |-> <<TRUE, TRUE>>],   \*   and clean
     stored    |-> [p \in Paths |-> Unknown]]
                           \* per path, the content of the last store that returned
                           \* nil: a PutContent, or a Commit after calls on the
                           \* writer that all returned nil

Init ==
    /\ impl \in {"cos", "p1"}
    /\ d \in [RootDirectory : RootDirs, ChunkSize : 1..MaxChunk]
    /\ objects = <<>>
    /\ uploads = <<>>
    /\ w = NoWriter
    /\ ret = Result("New", <<>>, 0, Nil, <<>>, FALSE)
    /\ reqs = <<>>
    /\ hist = NoHist

\* driver.Writer(path, append)
CallWriter(outcomes, path, append) ==
    /\ ~hist.created
    /\ \E o \in outcomes :
          /\ Becomes(o)
          /\ ret' = Result("Writer", path, 0, o.err, <<>>, append)
          /\ hist' = IF o.ok
                     THEN [hist EXCEPT !.created = TRUE, !.path = path,
                                       !.existed = (o.w.key \in DOMAIN objects)]
                     ELSE hist
    /\ UNCHANGED <<impl, d>>

\* writer.Write(p), p the next n bytes of the stream
CallWrite(outcomes, n) ==
    /\ hist.created
    /\ hist.handed + n <= MaxBytes
    /\ \E o \in outcomes :
          /\ Becomes(o)
          /\ ret' = Result("Write", hist.path, o.n, o.err, <<>>, FALSE)
          /\ hist' = [hist EXCEPT !.accepted = @ + o.n,
                                  !.handed = @ + n,
                                  !.flushed = @ \/ Asked(o.reqs, "UploadPart"),
                                  !.clean = @ /\ o.err = Nil]
    /\ UNCHANGED <<impl, d>>

\* writer.Close()
CallClose(outcomes) ==
    /\ hist.created
    /\ \E o \in outcomes :
          /\ Becomes(o)
          /\ ret' = Result("Close", hist.path, 0, o.err, <<>>, FALSE)
          /\ hist' = [hist EXCEPT !.clean = @ /\ o.err = Nil]
    /\ UNCHANGED <<impl, d>>

\* writer.Cancel(ctx)
CallCancel(outcomes) ==
    /\ hist.created
    /\ \E o \in outcomes :
          /\ Becomes(o)
          /\ ret' = Result("Cancel", hist.path, 0, o.err, <<>>, FALSE)
          /\ hist' = [hist EXCEPT !.clean = @ /\ o.err = Nil,
                                  !.over = @ \/ Ends(o.reqs),
                                  !.cancelled = @ \/ hist.commits = 0]
    /\ UNCHANGED <<impl, d>>

\* writer.Commit(ctx)
CallCommit(outcomes, done) ==
    /\ hist.created
    /\ \E o \in outcomes :
          /\ Becomes(o)
          /\ ret' = Result("Commit", hist.path, 0, o.err, <<>>, done)
          /\ hist' = [hist EXCEPT !.clean = @ /\ o.err = Nil,
                                  !.commits = IF o.err = Nil /\ @ < 2 THEN @ + 1 ELSE @,
                                  !.over = @ \/ Ends(o.reqs),
                                  !.finalized = @ \/ \E i \in DOMAIN o.reqs :
                                      /\ o.reqs[i].op \in {"Put", "CompleteMultipartUpload"}
                                      /\ o.reqs[i].err = Nil,
                                  !.stored[hist.path] =
                                      IF o.err = Nil /\ hist.clean
                                      THEN Stream(0, hist.accepted)
                                      ELSE IF o.objects # objects THEN Unknown ELSE @]
    /\ UNCHANGED <<impl, d>>

\* driver.PutContent(path, content).  A writer must be driven by one caller
\* and nothing else may store at its path meanwhile: PutContent is called
\* while no writer is in use.
CallPutContent(outcomes, path, content) ==
    /\ ~hist.created
    /\ Len(uploads) < MaxUploads
    /\ \E o \in outcomes :
          /\ Becomes(o)
          /\ ret' = Result("PutContent", path, 0, o.err, content, FALSE)
          /\ hist' = [hist EXCEPT !.stored[path] =
                                      IF o.err = Nil THEN content
                                      ELSE IF o.objects # objects THEN Unknown ELSE @]
    /\ UNCHANGED <<impl, d>>

\* driver.GetContent(path)
CallGetContent(outcomes, path) ==
    /\ \E o \in outcomes :
          /\ Becomes(o)
          /\ ret' = Result("GetContent", path, 0, o.err, o.data, FALSE)
    /\ UNCHANGED <<impl, d, hist>>

(* cos.go *)
CosWriter     == impl = "cos" /\ \E path \in Paths, append \in BOOLEAN :
                                    CallWriter(Writer(Cur, path, append), path, append)
CosWrite      == impl = "cos" /\ \E n \in 0..MaxBytes : CallWrite(Write(Cur, Stream(hist.handed, n)), n)
CosClose      == impl = "cos" /\ CallClose(Close(Cur))
CosCancel     == impl = "cos" /\ CallCancel(Cancel(Cur))
CosCommit     == impl = "cos" /\ CallCommit(Commit(Cur), {})
\* Commit(ctx) called when ctx is cancelled already; the context of the Writer
\* call is cancelled or not
CosCommitDone == impl = "cos" /\ \E done \in {{"call"}, {"call", "Writer"}} :
                                    CallCommit(Commit([Cur EXCEPT !.done = done]), done)
CosPutContent == impl = "cos" /\ \E path \in Paths, content \in PutContents :
                                    CallPutContent(PutContent(Cur, path, content), path, content)
CosGetContent == impl = "cos" /\ \E path \in Paths : CallGetContent(GetContent(Cur, path), path)

(* part_001 *)
P1Writer      == impl = "p1" /\ \E path \in Paths, append \in BOOLEAN :
                                   CallWriter(WriterP1(Cur, path, append), path, append)
P1Write       == impl = "p1" /\ \E n \in 0..MaxBytes : CallWrite(WriteP1(Cur, Stream(hist.handed, n)), n)
P1Close       == impl = "p1" /\ CallClose(CloseP1(Cur))
P1Cancel      == impl = "p1" /\ CallCancel(CancelP1(Cur))
P1Commit      == impl = "p1" /\ CallCommit(CommitP1(Cur), {})
P1PutContent  == impl = "p1" /\ \E path \in Paths, content \in PutContents :
                                   CallPutContent(PutContentP1(Cur, path, content), path, content)
P1GetContent  == impl = "p1" /\ \E path \in Paths : CallGetContent(GetContentP1(Cur, path), path)

\* driver.Stat(path)
CallStat(outcomes, path) ==
    /\ \E o \in outcomes :
          /\ Becomes(o)
          /\ ret' = Result("Stat", path, 0, o.err, o.info, FALSE)
    /\ UNCHANGED <<impl, d, hist>>

\* driver.List(path)
CallList(outcomes, path) ==
    /\ \E o \in outcomes :
          /\ Becomes(o)
          /\ ret' = Result("List", path, 0, o.err, o.files, FALSE)
    /\ UNCHANGED <<impl, d, hist>>

\* driver.Delete(path)
CallDelete(outcomes, path) ==
    /\ \E o \in outcomes :
          /\ Becomes(o)
          /\ ret' = Result("Delete", path, 0, o.err, <<>>, FALSE)
    /\ UNCHANGED <<impl, d, hist>>

\* driver.Walk(from, f), f a callback that fails at its failAt-th call
CallWalk(outcomes, from, failAt) ==
    /\ \E o \in outcomes :
          /\ Becomes(o)
          /\ ret' = Result("Walk", from, 0, o.err,
                           [visited |-> o.visited, lastPage |-> o.lastPage], failAt)
    /\ UNCHANGED <<impl, d, hist>>

\* driver.Move(sourcePath, destPath), to another path
CallMove(outcomes, sourcePath, destPath) ==
    /\ \E o \in outcomes :
          /\ Becomes(o)
          /\ ret' = Result("Move", sourcePath, 0, o.err, <<>>, destPath)
    /\ UNCHANGED <<impl, d, hist>>

\* FromParameters(parameters): a driver is constructed
CallFromParameters(outcomes, parameters) ==
    /\ ret.op = "New"
    /\ \E o \in outcomes :
          /\ Becomes(o)
          /\ ret' = Result("FromParameters", <<>>, 0, o.err, o.params, parameters)
          /\ d' = IF o.err = Nil
                  THEN [RootDirectory |-> o.params.RootDirectory,
                        ChunkSize |-> o.params.ChunkSize]
                  ELSE d
    /\ UNCHANGED <<impl, hist>>

(* cos.go *)
CosFromParameters ==
    impl = "cos" /\ \E parameters \in [secretid : RequiredParams, secretkey : RequiredParams,
                                       region : RequiredParams, bucket : RequiredParams,
                                       rootdirectory : RootParams, chunksize : ChunkSizeParams,
                                       maxconcurrency : ConcurrencyParams, secure : SecureParams] :
                       CallFromParameters(FromParameters(Cur, parameters), parameters)
CosMove   == impl = "cos" /\ \E sourcePath, destPath \in MovePaths :
                 CallMove(Move(Cur, sourcePath, destPath), sourcePath, destPath)
CosStat   == impl = "cos" /\ \E path \in StatPaths : CallStat(Stat(Cur, path), path)
CosList   == impl = "cos" /\ \E path \in ListPaths : CallList(List(Cur, path), path)
CosDelete == impl = "cos" /\ \E path \in StatPaths : CallDelete(Delete(Cur, path), path)

(* part_001 *)
P1Move    == impl = "p1" /\ \E sourcePath, destPath \in MovePaths :
                 CallMove(MoveP1(Cur, sourcePath, destPath), sourcePath, destPath)
P1Stat    == impl = "p1" /\ \E path \in StatPaths : CallStat(StatP1(Cur, path), path)
P1List    == impl = "p1" /\ \E path \in ListPaths : CallList(ListP1(Cur, path), path)
P1Delete  == impl = "p1" /\ \E path \in StatPaths : CallDelete(DeleteP1(Cur, path), path)
P1Walk    == impl = "p1" /\ \E from \in WalkPaths, failAt \in 0..MaxVisits :
                               CallWalk(WalkP1(Cur, from, failAt), from, failAt)

\* a bucket that holds a tree of objects is queried
NextTree ==
    \/ CosStat \/ CosList
    \/ P1Stat \/ P1List \/ P1Walk

\* a bucket that holds a tree of objects is pruned
NextDelete == CosDelete \/ P1Delete

\* the life of one writer, under either implementation
\* cos.go writer.Write taken one step of its loop at a time: while the call is
\* in progress ret.op is "WriteLoop", ret.n is the count to return and reqs the
\* requests of the call so far.
\* lines 556-572: the guards, the bytes appended to the buffer, the size
WriteEnter ==
    /\ impl = "cos" /\ hist.created /\ ret.op # "WriteLoop"
    /\ ~w.closed /\ ~w.cancelled /\ ~w.committed
    /\ \E n \in 0..MaxBytes :
          /\ hist.handed + n <= MaxBytes
          /\ w' = [w EXCEPT !.buf = @ \o Stream(hist.handed, n), !.size = @ + n]
          /\ ret' = Result("WriteLoop", hist.path, n, Nil, <<>>, FALSE)
          /\ hist' = [hist EXCEPT !.handed = @ + n]
    /\ reqs' = <<>>
    /\ UNCHANGED <<impl, d, objects, uploads>>

\* lines 574-578: one turn of "for w.buf.Len() >= w.driver.ChunkSize"
WriteIterate ==
    /\ impl = "cos" /\ ret.op = "WriteLoop"
    /\ Len(w.buf) >= d.ChunkSize
    /\ \E o \in uploadPart([Cur EXCEPT !.reqs = reqs]) :
          /\ Becomes(o)
          /\ ret' = IF o.err # Nil
                    THEN Result("Write", hist.path, ret.n, o.err, <<>>, FALSE)
                    ELSE ret
          /\ hist' = [hist EXCEPT !.flushed = @ \/ Asked(o.reqs, "UploadPart"),
                                  !.accepted = IF o.err # Nil THEN @ + ret.n ELSE @,
                                  !.clean = @ /\ o.err = Nil]
    /\ UNCHANGED <<impl, d>>

\* line 580: the loop condition is false, Write returns n, nil
WriteReturn ==
    /\ impl = "cos" /\ ret.op = "WriteLoop"
    /\ Len(w.buf) < d.ChunkSize
    /\ ret' = Result("Write", hist.path, ret.n, Nil, <<>>, FALSE)
    /\ hist' = [hist EXCEPT !.accepted = @ + ret.n]
    /\ UNCHANGED <<impl, d, objects, uploads, w, reqs>>

\* List and Delete of cos.go taken one page at a time.  While the loop over the
\* pages runs ret.op is "ListLoop" or "DeleteLoop", ret.n is the number of
\* pages received, ret.data the names collected, reqs the requests of the call
\* so far, and ret.arg holds opt.Prefix, opt.Marker and, of the last page
\* dealt with, IsTruncated and NextMarker.  Between the listing request of
\* Delete and its batch deletion ret.op is "DeleteBatch" and ret.data the page.
Paging == {"ListLoop", "DeleteLoop", "DeleteBatch"}

\* cos.go driver.List, lines 356-360: the path with a slash at its end
listPath(opath) ==
    IF opath # <<"/">> /\ opath[Len(opath)] # "/" THEN opath \o <<"/">> ELSE opath

\* cos.go driver.List, lines 361-367: the prefix of the listing
listPrefix(opath) ==
    LET path == listPath(opath)
        root == IF d.RootDirectory # <<>> THEN d.RootDirectory \o <<"/">> ELSE <<>>
    IN  IF path # <<"/">> THEN root \o TrimPrefix(path, <<"/">>) ELSE root

\* the options of the first request
FirstRequest(prefix) ==
    [Prefix |-> prefix, Marker |-> <<>>, IsTruncated |-> FALSE, NextMarker |-> <<>>]

\* a loop that asks for the next page with the marker it has used before
NextRequestSameMarker(opt, result) ==
    [opt EXCEPT !.IsTruncated = result.IsTruncated, !.NextMarker = result.NextMarker]

\* cos.go lines 413 and 486: opt.Marker = result.NextMarker
NextRequest(opt, result) ==
    [opt EXCEPT !.Marker = result.NextMarker,
                !.IsTruncated = result.IsTruncated, !.NextMarker = result.NextMarker]

\* driver.List(opath) up to its loop; one call is followed, on any bucket
ListEnter ==
    /\ impl = "cos" /\ ret.op = "New"
    /\ \E opath \in ListPaths :
          ret' = Result("ListLoop", opath, 0, Nil, <<>>, FirstRequest(listPrefix(opath)))
    /\ reqs' = <<>>
    /\ UNCHANGED <<impl, d, objects, uploads, w, hist>>

\* lines 377-414: one turn of the loop of List
ListIterate ==
    /\ impl = "cos" /\ ret.op = "ListLoop"
    /\ \E r \in BucketGet([Cur EXCEPT !.reqs = reqs], ret.arg.Prefix, TRUE, cosMaxKeys,
                           ret.arg.Marker) :
          /\ Becomes(St(r))
          /\ ret' = IF r.err # Nil
                    THEN Result("List", ret.path, ret.n, parseError(listPath(ret.path), r.err),
                                <<>>, ret.arg)
                    ELSE LET files == ret.data \o ListFiles(r.Contents, listPath(ret.path))
                                               \o ListDirs(r.CommonPrefixes, listPath(ret.path))
                         IN  Result(IF r.IsTruncated THEN "ListLoop" ELSE "List",
                                    ret.path, ret.n + 1, Nil, files, NextRequest(ret.arg, r))
    /\ UNCHANGED <<impl, d, hist>>

\* driver.Delete(path) up to its loop, lines 443-457
DeleteEnter ==
    /\ impl = "cos" /\ ret.op = "New"
    /\ \E path \in StatPaths :
          \E x \in ObjectDelete(Cur, cosPath(path)) :
              /\ Becomes(x)
              /\ ret' = Result(IF x.err = Nil THEN "Delete" ELSE "DeleteLoop",
                               path, 0, Nil, <<>>, FirstRequest(cosPath(path)))
    /\ UNCHANGED <<impl, d, hist>>

\* ret after the page `result` has been dealt with: Delete returns the error
\* err, or returns nil after the last page, or goes on to the next page
DeleteTurned(result, err) ==
    IF err # Nil
    THEN Result("Delete", ret.path, ret.n + 1, parseError(ret.path, err), <<>>, ret.arg)
    ELSE Result(IF result.IsTruncated THEN "DeleteLoop" ELSE "Delete",
                ret.path, ret.n + 1, Nil, <<>>, NextRequest(ret.arg, result))

\* lines 458-463: the listing request of one turn of the loop of Delete; a
\* page with objects waits in ret.data for its batch to be deleted
DeleteIterate ==
    /\ impl = "cos" /\ ret.op = "DeleteLoop"
    /\ \E r \in BucketGet([Cur EXCEPT !.reqs = reqs], ret.arg.Prefix, FALSE, cosMaxKeys,
                           ret.arg.Marker) :
          /\ Becomes(St(r))
          /\ ret' = IF r.err # Nil
                    THEN Result("Delete", ret.path, ret.n, parseError(ret.path, r.err),
                                <<>>, ret.arg)
                    ELSE IF Len(r.Contents) > 0
                    THEN [ret EXCEPT !.op = "DeleteBatch",
                                     !.data = [Contents    |-> r.Contents,
                                               IsTruncated |-> r.IsTruncated,
                                               NextMarker  |-> r.NextMarker]]
                    ELSE DeleteTurned(r, Nil)
    /\ UNCHANGED <<impl, d, hist>>

\* lines 465-487: the objects of the page are deleted, the turn ends
DeleteBatch ==
    /\ impl = "cos" /\ ret.op = "DeleteBatch"
    /\ \E x \in ObjectDeleteMulti([Cur EXCEPT !.reqs = reqs], ret.data.Contents) :
          /\ Becomes(x)
          /\ ret' = DeleteTurned(ret.data, x.err)
    /\ UNCHANGED <<impl, d, hist>>

\* listings and deletions, page by page
NextPages == ListEnter \/ ListIterate \/ DeleteEnter \/ DeleteIterate \/ DeleteBatch

\* Two writers of one path.  Writer 1 is w, writer 2 is hist.two.w2; writer i
\* is handed the bytes 100 * (i - 1) + 1, 100 * (i - 1) + 2, ...
TwoPath == <<"/", "a">>

WriterAt(i) == IF i = 1 THEN w ELSE hist.two.w2

\* the state a call on writer i starts from
CurAt(i) == [Cur EXCEPT !.w = WriterAt(i)]

\* the outcome o of the call op on writer i becomes the next state; two is the
\* record of both writers after the call
TwoBecomes(i, o, op, two) ==
    /\ objects' = o.objects
    /\ uploads' = o.uploads
    /\ reqs' = o.reqs
    /\ w' = IF i = 1 THEN o.w ELSE w
    /\ ret' = Result(op, TwoPath, 0, o.err, <<>>, i)
    /\ hist' = [hist EXCEPT !.two = [two EXCEPT !.w2 = IF i = 2 THEN o.w ELSE @]]
    /\ UNCHANGED <<impl, d>>

\* driver.Writer(TwoPath, false), for the first and for the second writer
TwoWriter ==
    /\ impl = "cos"
    /\ \E i \in 1..2 :
          /\ ~hist.two.made[i]
          /\ \E o \in Writer(CurAt(i), TwoPath, FALSE) :
                TwoBecomes(i, o, "Writer", [hist.two EXCEPT !.made[i] = o.ok])

TwoWrite ==
    /\ impl = "cos"
    /\ \E i \in 1..2, n \in 0..MaxBytes :
          /\ hist.two.made[i]
          /\ hist.two.handed[i] + n <= MaxBytes
          /\ \E o \in Write(CurAt(i), Stream(100 * (i - 1) + hist.two.handed[i], n)) :
                TwoBecomes(i, o, "Write",
                           [hist.two EXCEPT !.handed[i] = @ + n,
                                            !.accepted[i] = @ + o.n,
                                            !.clean[i] = @ /\ o.err = Nil])

TwoCommit ==
    /\ impl = "cos"
    /\ \E i \in 1..2 :
          /\ hist.two.made[i]
          /\ \E o \in Commit(CurAt(i)) :
                TwoBecomes(i, o, "Commit",
                           [hist.two EXCEPT !.committed[i] = @ \/ o.err = Nil,
                                            !.clean[i] = @ /\ o.err = Nil])

TwoCancel ==
    /\ impl = "cos"
    /\ \E i \in 1..2 :
          /\ hist.two.made[i]
          /\ \E o \in Cancel(CurAt(i)) :
                TwoBecomes(i, o, "Cancel", [hist.two EXCEPT !.clean[i] = @ /\ o.err = Nil])

\* two writers of one path, their calls interleaved
NextTwo == TwoWriter \/ TwoWrite \/ TwoCommit \/ TwoCancel

\* a writer of cos.go whose Commit may find its context cancelled
NextCtx == CosWriter \/ CosWrite \/ CosCommit \/ CosCommitDone

\* a writer is created and written to, Write seen step by step
NextWrite == CosWriter \/ WriteEnter \/ WriteIterate \/ WriteReturn

NextWriters ==
    \/ CosWriter \/ CosWrite \/ CosClose \/ CosCancel \/ CosCommit
    \/ P1Writer \/ P1Write \/ P1Close \/ P1Cancel \/ P1Commit

\* cos.go: objects stored and read back, and the life of one writer
NextCos ==
    \/ CosWriter \/ CosWrite \/ CosClose \/ CosCancel \/ CosCommit
    \/ CosPutContent \/ CosGetContent

\* part_001: the same
NextP1 ==
    \/ P1Writer \/ P1Write \/ P1Close \/ P1Cancel \/ P1Commit
    \/ P1PutContent \/ P1GetContent

\* objects are stored, then a writer is asked for, under either implementation
NextAppend ==
    \/ CosPutContent \/ CosWriter
    \/ P1PutContent \/ P1Writer

\* objects of a bucket are moved
NextMove == CosMove \/ P1Move

\* a driver is configured
NextConfig == CosFromParameters

Next == NextCos \/ NextP1 \/ NextTree \/ NextDelete \/ NextMove \/ NextConfig
            \/ NextCtx \/ NextTwo \/ NextWrite \/ NextPages

\* the driver is constructed over a bucket that already holds objects: any
\* of the paths TreePaths, stored under this driver's key for the path
InitTree ==
    /\ impl \in {"cos", "p1"}
    /\ d \in [RootDirectory : RootDirs, ChunkSize : {MaxChunk}]
    /\ \E S \in SUBSET TreePaths :
          objects = [k \in { (IF impl = "cos" THEN cosPath(p) ELSE cosPathP1(p)) : p \in S }
                        |-> Stream(0, Len(k) % MaxBytes)]
    /\ uploads = <<>>
    /\ w = NoWriter
    /\ ret = Result("New", <<>>, 0, Nil, <<>>, FALSE)
    /\ reqs = <<>>
    /\ hist = NoHist

\* before cos.go's driver is constructed
InitConfig ==
    /\ Init
    /\ impl = "cos"
    /\ d = [RootDirectory |-> <<>>, ChunkSize |-> MaxChunk]

\* a cos.go driver as New returns it: New copies params.ChunkSize unchecked
\* (lines 177-223), so that the chunk size may be 0
InitWrite ==
    /\ impl = "cos"
    /\ d \in [RootDirectory : {<<>>}, ChunkSize : 0..MaxChunk]
    /\ objects = <<>>
    /\ uploads = <<>>
    /\ w = NoWriter
    /\ ret = Result("New", <<>>, 0, Nil, <<>>, FALSE)
    /\ reqs = <<>>
    /\ hist = NoHist

InitCos == Init /\ impl = "cos"
\* a cos.go driver on a bucket of at most three objects
InitPages == InitTree /\ impl = "cos" /\ Cardinality(DOMAIN objects) <= 3

\* a cos.go driver without a root directory
InitTwo == InitCos /\ d.RootDirectory = <<>> /\ d.ChunkSize = MaxChunk
InitP1  == Init /\ impl = "p1"

Spec        == Init /\ [][Next]_vars
SpecWriters == Init /\ [][NextWriters]_vars
SpecCos     == InitCos /\ [][NextCos]_vars
SpecP1      == InitP1 /\ [][NextP1]_vars
SpecAppend  == Init /\ [][NextAppend]_vars
SpecTree    == InitTree /\ [][NextTree]_vars
SpecDelete  == InitTree /\ [][NextDelete]_vars
SpecMove    == InitTree /\ [][NextMove]_vars
SpecConfig  == InitConfig /\ [][NextConfig]_vars
SpecCtx     == InitCos /\ [][NextCtx]_vars
SpecTwo     == InitTwo /\ [][NextTwo]_vars
\* the goroutine that has called List or Delete keeps running
SpecPages   == InitPages /\ [][NextPages]_vars
                   /\ WF_vars(ListIterate) /\ WF_vars(DeleteIterate) /\ WF_vars(DeleteBatch)
\* the goroutine that has called Write keeps running
SpecWrite   == InitWrite /\ [][NextWrite]_vars
                   /\ WF_vars(WriteIterate) /\ WF_vars(WriteReturn)

---------------------------------------------------------------------------
(* Properties of the writer and of whole-object storage *)

\* writer.Size() of the implementation that runs
SizeOf(wr) == IF impl = "cos" THEN Size(wr) ELSE SizeP1(wr)

\* the parts stored in the session of the writer
PartsOf(id) == IF id \in DOMAIN uploads THEN uploads[id].parts ELSE <<>>

\* number of bytes in the parts of a part list (the ETag of a part is its content)
RECURSIVE PartBytes(_)
PartBytes(parts) ==
    IF parts = <<>> THEN 0 ELSE Len(Head(parts).ETag) + PartBytes(Tail(parts))

CeilDiv(n, c) == (n + c - 1) \div c

\* the writer has been committed (a Commit returned nil), has been cancelled
Committed == hist.commits > 0
Cancelled == hist.cancelled

\* C1: Round trip.  After PutContent(P, B) returned nil, or after a
\* Writer(P, false), Writes and a Commit that all returned nil with B the
\* bytes written, the object at P is B and reading P from offset 0 returns
\* exactly B (cos.go).
RoundTrip ==
    /\ \A p \in Paths :
          hist.stored[p] # Unknown =>
              /\ cosPath(p) \in DOMAIN objects
              /\ objects[cosPath(p)] = hist.stored[p]
    /\ (ret.op = "GetContent" /\ ret.err = Nil /\ hist.stored[ret.path] # Unknown)
          => ret.data = hist.stored[ret.path]

\* a read returns what a writer stored in two or more parts, while another
\* path holds what PutContent stored
RoundTripWitness ==
    /\ ret.op = "GetContent" /\ ret.err = Nil
    /\ hist.created /\ ret.path = hist.path
    /\ hist.stored[ret.path] # Unknown
    /\ Len(ret.data) > d.ChunkSize
    /\ Len(w.parts) >= 2
    /\ \E p \in Paths \ {hist.path} : hist.stored[p] # Unknown /\ Len(hist.stored[p]) > 0

\* C2: Chunking law.  A writer that accepted N > 0 bytes, every call on it
\* having returned nil, and whose upload was completed as a multipart upload
\* has uploaded exactly ceil(N / ChunkSize) parts.
ChunkingLaw ==
    (/\ ret.op = "Commit" /\ ret.err = Nil /\ hist.clean
     /\ Asked(reqs, "CompleteMultipartUpload")
     /\ hist.accepted > 0)
        => Cardinality(DOMAIN PartsOf(w.uploadID)) = CeilDiv(hist.accepted, d.ChunkSize)

\* C3: Every part uploaded during a Write is exactly ChunkSize bytes: a Write
\* that brings the buffer to k * ChunkSize + r bytes (r < ChunkSize) uploads
\* k parts of ChunkSize bytes and leaves r bytes buffered; no part is ever
\* longer than ChunkSize (cos.go).
ExactChunks ==
    [][ /\ (ret'.op = "Write" /\ ret'.err = Nil /\ ~w.closed) =>
              LET total == Len(w.buf) + (hist'.handed - hist.handed)
                  new   == SubSeq(w'.parts, Len(w.parts) + 1, Len(w'.parts))
              IN  /\ Len(new) = total \div d.ChunkSize
                  /\ \A i \in DOMAIN new : Len(new[i].ETag) = d.ChunkSize
                  /\ Len(w'.buf) = total % d.ChunkSize
        /\ \A id \in DOMAIN uploads' : \A k \in DOMAIN uploads'[id].parts :
              Len(uploads'[id].parts[k]) <= d.ChunkSize ]_vars

\* C4: Single-shot path.  The Commit of a writer that accepted N <= ChunkSize
\* bytes and flushed no part stores the object with one whole-object put and
\* neither initiates nor completes a multipart upload; for N = 0 a
\* zero-length object exists at the path.
SingleShot ==
    (/\ ret.op = "Commit" /\ ret.err = Nil /\ hist.commits = 1
     /\ hist.accepted <= d.ChunkSize /\ ~hist.flushed)
        => /\ reqs = << Req("Put", w.key, Nil) >>
           /\ w.uploadID = 0
           /\ w.key \in DOMAIN objects
           /\ Len(objects[w.key]) = hist.accepted

\* C5: A Write on a writer that is Committed or Cancelled fails, returns 0,
\* leaves Size() unchanged and issues no backend request.
WriteAfterEnd ==
    [][ (ret'.op = "Write" /\ (Committed \/ Cancelled)) =>
            /\ ret'.err # Nil
            /\ ret'.n = 0
            /\ SizeOf(w') = SizeOf(w)
            /\ reqs' = <<>> ]_vars

\* C6: A Commit on a writer that was committed or cancelled returns an error
\* and issues no backend request.
CommitAfterEnd ==
    [][ (ret'.op = "Commit" /\ (Committed \/ Cancelled)) =>
            /\ ret'.err # Nil
            /\ reqs' = <<>> ]_vars

\* C7: Cancel aborts.  If no object existed at P when the writer was created
\* and Cancel is called before any Commit succeeded, then every later Commit
\* fails and no object is visible at P (cos.go).
CancelAborts ==
    (hist.cancelled /\ ~hist.existed) =>
        /\ cosPath(hist.path) \notin DOMAIN objects
        /\ (ret.op = "Commit" => ret.err # Nil)

\* a Commit called after the Cancel of a writer that had uploaded a part
CancelAbortsWitness ==
    /\ hist.cancelled /\ ~hist.existed
    /\ ret.op = "Commit"
    /\ w.cancelled
    /\ Len(w.parts) > 0

\* C8: Cancel is best-effort.  When the abort request fails, Cancel returns
\* that failure, and the writer is Cancelled afterwards with its buffered
\* bytes discarded.
CancelBestEffort ==
    \A i \in FailedReqs(reqs) :
        (ret.op = "Cancel" /\ reqs[i].op = "AbortMultipartUpload") =>
            /\ ret.err = reqs[i].err
            /\ w.cancelled
            /\ w.buf = <<>>

\* C9: Close issues no backend request and leaves the upload session (its
\* id, the part list, the objects) as it was; a Close of a closed writer
\* returns nil and changes nothing.
CloseIsLocal ==
    [][ ret'.op = "Close" =>
            /\ ret'.err = Nil
            /\ reqs' = <<>>
            /\ objects' = objects
            /\ uploads' = uploads
            /\ w'.uploadID = w.uploadID
            /\ w'.parts = w.parts
            /\ (w.closed => w' = w) ]_vars

\* Close has returned on a writer whose open session holds an uploaded part
CloseIsLocalWitness ==
    /\ ret.op = "Close"
    /\ w.closed /\ ~w.committed /\ ~w.cancelled
    /\ Len(w.parts) > 0
    /\ SessionOpen(Cur, w.uploadID)
    /\ Cardinality(DOMAIN PartsOf(w.uploadID)) > 0

\* C10: Size accounting.  Size() is the sum of the counts Write returned;
\* while the writer is neither committed nor cancelled it equals the bytes
\* still buffered plus the bytes uploaded, also after a part upload failed;
\* Commit, Cancel and Close do not change it.
SizeAccounting ==
    hist.created =>
        /\ SizeOf(w) = hist.accepted
        /\ (~Committed /\ ~Cancelled) => SizeOf(w) = Len(w.buf) + PartBytes(w.parts)

---------------------------------------------------------------------------
(* Properties of append *)

\* the key of a path, and driver.Writer, of the implementation that runs
KeyOf(p) == IF impl = "cos" THEN cosPath(p) ELSE cosPathP1(p)
WriterOf(st, p, append) ==
    IF impl = "cos" THEN Writer(st, p, append) ELSE WriterP1(st, p, append)

\* what a Writer call leaves behind and returns, its requests aside
Effects(outcomes) ==
    { [w |-> o.w, objects |-> o.objects, uploads |-> o.uploads, err |-> o.err, ok |-> o.ok] :
      o \in outcomes }

\* every request of the log rs was answered truthfully for the bucket objs:
\* it succeeded, or it reported a key that does not exist as missing
Truthful(rs, objs) ==
    \A i \in DOMAIN rs :
        \/ rs[i].err = Nil
        \/ /\ rs[i].op \in {"Head", "Get", "Delete"}
           /\ rs[i].err = CosErr("NoSuchKey")
           /\ rs[i].key \notin DOMAIN objs

\* C11: Append rejection.  Writer(P, append = true) on a path that holds a
\* non-empty object returns an error and no writer and leaves the object as
\* it was, in every execution, also when the head request fails.
AppendRejection ==
    [][ (/\ ret'.op = "Writer" /\ ret'.arg
         /\ KeyOf(ret'.path) \in DOMAIN objects
         /\ objects[KeyOf(ret'.path)] # <<>>)
            => /\ ret'.err # Nil
               /\ ~hist'.created
               /\ objects' = objects ]_vars

\* C12: Writer(P, append = true), when no object exists at P or the object
\* at P has size zero, behaves exactly like Writer(P, append = false): it can
\* end in the same ways, with the same writer over the same store.
AppendEquivalence ==
    \A p \in Paths :
        (KeyOf(p) \notin DOMAIN objects \/ objects[KeyOf(p)] = <<>>)
            => Effects(WriterOf(Cur, p, TRUE)) = Effects(WriterOf(Cur, p, FALSE))

\* C12 amended: the same when no object exists at P
AppendEquivalenceAbsent ==
    \A p \in Paths :
        KeyOf(p) \notin DOMAIN objects
            => Effects(WriterOf(Cur, p, TRUE)) = Effects(WriterOf(Cur, p, FALSE))

\* Writer(P, append = true) has returned a writer for a path without an
\* object, in a bucket that holds an object at another path
AppendEquivalenceWitness ==
    /\ ret.op = "Writer" /\ ret.arg /\ ret.err = Nil
    /\ hist.created /\ ~hist.existed
    /\ KeyOf(ret.path) \notin DOMAIN objects
    /\ \E p \in Paths : KeyOf(p) \in DOMAIN objects

\* C13: Writer(P, append = true) returns an error whenever an object exists
\* at P, whatever its size (the store answering every request truthfully).
AppendStrict ==
    [][ (/\ ret'.op = "Writer" /\ ret'.arg
         /\ KeyOf(ret'.path) \in DOMAIN objects
         /\ Truthful(reqs', objects))
            => ret'.err # Nil ]_vars

---------------------------------------------------------------------------
(* Properties of the directory emulation *)

\* the keys of the bucket strictly beneath the path p
Beneath(p) == { k \in DOMAIN objects : HasPrefix(k, KeyOf(p) \o <<"/">>) }

\* C14: Stat of a path at which an object exists reports a file of the object's
\* size, whether or not keys exist beneath it; Stat of a path without an object
\* but with keys beneath it reports a directory of size 0; Stat of a path with
\* neither fails with NotFound (the store answering every request truthfully).
StatAnswers ==
    (ret.op = "Stat" /\ Truthful(reqs, objects)) =>
        IF KeyOf(ret.path) \in DOMAIN objects
        THEN /\ ret.err = Nil
             /\ ret.data = FileInfo(ret.path, Len(objects[KeyOf(ret.path)]), FALSE)
        ELSE IF Beneath(ret.path) # {}
        THEN /\ ret.err = Nil
             /\ ret.data = FileInfo(ret.path, 0, TRUE)
        ELSE ret.err = PathNotFoundError(ret.path)

\* a Stat has answered "directory" for a path that has keys beneath it and no object
StatAnswersWitness ==
    /\ ret.op = "Stat" /\ Truthful(reqs, objects)
    /\ KeyOf(ret.path) \notin DOMAIN objects
    /\ Beneath(ret.path) # {}
    /\ ret.data.IsDir

\* the entries of the sequence files, as a set
Entries(files) == { files[i] : i \in DOMAIN files }

\* C15: when the bucket holds exactly the objects /a/b/c and /a/b/d,
\* List("/a/b") returns the names c and d and List("/a") returns the name b:
\* the names are stripped of the listed prefix (the store answering every
\* request truthfully).
DirectoryEmulation ==
    (/\ ret.op = "List" /\ Truthful(reqs, objects)
     /\ DOMAIN objects = { KeyOf(<<"/", "a", "/", "b", "/", "c">>),
                           KeyOf(<<"/", "a", "/", "b", "/", "d">>) })
        => /\ ret.path = <<"/", "a", "/", "b">>
                => /\ ret.err = Nil
                   /\ Len(ret.data) = 2
                   /\ Entries(ret.data) = { <<"c">>, <<"d">> }
           /\ ret.path = <<"/", "a">>
                => /\ ret.err = Nil
                   /\ ret.data = << <<"b">> >>

\* the prefix of the keys beneath the path p
DirKey(p) ==
    LET k == KeyOf(p)
    IN  IF k = <<>> \/ HasSuffix(k, <<"/">>) THEN k ELSE k \o <<"/">>

\* the names of the children of the path p: the first path component, after
\* the prefix of p, of the keys beneath p
ChildNames(p) ==
    { TrimSuffix(Drop(ListEntry(k, DirKey(p), TRUE), Len(DirKey(p))), <<"/">>) :
      k \in { k \in DOMAIN objects : HasPrefix(k, DirKey(p)) /\ k # DirKey(p) } }

\* the last component of a path or name
RECURSIVE LastName(_)
LastName(s) ==
    IF \E i \in DOMAIN s : s[i] = "/" THEN LastName(Tail(s)) ELSE s

\* the listing the call in ret has asked for was served one entry per page
PagesOfOne ==
    /\ reqs # <<>>
    /\ LET prefix  == reqs[1].key
           entries == { ListEntry(k, prefix, TRUE) :
                        k \in { k \in DOMAIN objects : HasPrefix(k, prefix) } }
       IN  Len(reqs) = IF entries = {} THEN 1 ELSE Cardinality(entries)

\* no key of the bucket is an object while other keys exist beneath it
NoObjectWithChildren ==
    \A k1, k2 \in DOMAIN objects : ~HasPrefix(k2, k1 \o <<"/">>)

\* C16: when a path has K >= 2 children and the store serves the listing in
\* pages of one entry, List succeeds and returns each of the K children exactly
\* once, and nothing else (the store answering every request truthfully, no
\* child being an object and a directory at once; an entry is told by its
\* last path component).
ListComplete ==
    (/\ ret.op = "List" /\ Truthful(reqs, objects)
     /\ NoObjectWithChildren
     /\ Cardinality(ChildNames(ret.path)) >= 2
     /\ PagesOfOne)
        => /\ ret.err = Nil
           /\ Len(ret.data) = Cardinality(ChildNames(ret.path))
           /\ \A c \in ChildNames(ret.path) :
                 Cardinality({ i \in DOMAIN ret.data : LastName(ret.data[i]) = c }) = 1

\* C17: List of a path with nothing beneath it, the root of an empty bucket
\* included, returns the empty list and no error (the store answering every
\* request truthfully).
ListOfNothing ==
    (ret.op = "List" /\ Truthful(reqs, objects) /\ ChildNames(ret.path) = {})
        => ret.err = Nil /\ ret.data = <<>>

\* a List of a path with nothing beneath it, in a bucket that is not empty,
\* has returned
ListOfNothingWitness ==
    /\ ret.op = "List" /\ Truthful(reqs, objects)
    /\ ChildNames(ret.path) = {}
    /\ DOMAIN objects # {}
    /\ ret.err = Nil

\* C18: a list that List returns never contains the same entry twice, also
\* when a key is an object while other keys exist beneath it.
ListNoDuplicates ==
    (ret.op = "List" /\ ret.err = Nil)
        => \A i, j \in DOMAIN ret.data : ret.data[i] = ret.data[j] => i = j

\* C19: when the visit callback returns an error, Walk returns that error at
\* once: the callback is not called again, and no listing request follows the
\* one that returned the object whose visit failed.
WalkAbort ==
    (ret.op = "Walk" /\ ret.arg > 0 /\ Len(ret.data.visited) >= ret.arg)
        => /\ ret.err = VisitErr
           /\ Len(ret.data.visited) = ret.arg
           /\ \E i \in DOMAIN ret.data.lastPage :
                 Join(ret.path, TrimPrefix(ret.data.lastPage[i], DirKey(ret.path)))
                     = ret.data.visited[ret.arg]

\* a Walk was aborted by its second visit while objects were left to visit
WalkAbortWitness ==
    /\ ret.op = "Walk" /\ ret.arg = 2 /\ Len(ret.data.visited) = 2
    /\ ret.err = VisitErr
    /\ Cardinality(Beneath(ret.path)) > 2

\* C20: Delete of a path at which no object exists and beneath which no key
\* exists returns no error and changes no object, however often it is
\* repeated (the store answering every request truthfully).
DeleteOfNothing ==
    [][ (/\ ret'.op = "Delete"
         /\ KeyOf(ret'.path) \notin DOMAIN objects
         /\ Beneath(ret'.path) = {}
         /\ Truthful(reqs', objects))
            => ret'.err = Nil /\ objects' = objects ]_vars

---------------------------------------------------------------------------
(* Properties of Delete and Move *)

\* C21: after Delete(P) has returned without error, no object exists at the
\* key of P and none at any key beneath it, whether P is a file or a
\* directory, whatever the pages of its listing, and whether the store reports
\* the delete of a missing key as a success or as not found (the store
\* answering every request truthfully).
RecursiveDelete ==
    [][ (ret'.op = "Delete" /\ ret'.err = Nil /\ Truthful(reqs', objects'))
            => \A k \in DOMAIN objects' :
                  /\ k # KeyOf(ret'.path)
                  /\ ~HasPrefix(k, KeyOf(ret'.path) \o <<"/">>) ]_vars

\* C22: when a DeleteMulti request completes and reports keys it could not
\* delete, Delete returns an error.
PartialBatchFailure ==
    (ret.op = "Delete" /\ Asked(reqs, "DeleteMultiError")) => ret.err # Nil

\* the call in ret is a Move whose copy request failed
CopyFailed(rs) == rs # <<>> /\ rs[1].op = "Copy" /\ rs[1].err # Nil

\* the call in ret is a Move whose copy request succeeded and whose request to
\* delete the source failed
SourceDeleteFailed(rs) ==
    /\ Len(rs) >= 2
    /\ rs[1].op = "Copy" /\ rs[1].err = Nil
    /\ rs[2].op = "Delete" /\ rs[2].err # Nil

\* C23: when the copy request of Move(source, dest) fails, Move returns an
\* error and sends no delete request; the source object is unchanged and no
\* object was created or changed at dest.
MoveCopyFails ==
    [][ (ret'.op = "Move" /\ CopyFailed(reqs'))
            => /\ ret'.err # Nil
               /\ ~Asked(reqs', "Delete")
               /\ objects' = objects ]_vars

\* a Move of an object that exists has returned after its copy request failed
MoveCopyFailsWitness ==
    /\ ret.op = "Move" /\ CopyFailed(reqs)
    /\ KeyOf(ret.path) \in DOMAIN objects
    /\ ret.err # Nil

\* C24: when the copy of a Move succeeded and the deletion of the source
\* failed, then after Move has returned at most one of source and destination
\* holds the object.
MoveLeavesOne ==
    (ret.op = "Move" /\ SourceDeleteFailed(reqs))
        => ~(KeyOf(ret.path) \in DOMAIN objects /\ KeyOf(ret.arg) \in DOMAIN objects)

\* the error Move returns for the error err of a request
MoveError(path, err) ==
    IF impl = "cos" THEN parseError(path, err) ELSE parseErrorP1(path, err)

\* C28: when the copy of a Move succeeded and the deletion of the source
\* failed, Move sends exactly one delete request, for the destination key, and
\* then returns the translated error of the source deletion, whatever the
\* rollback delete returned; in every other case Move sends no delete request
\* after the one for the source.
MoveRollback ==
    ret.op = "Move" =>
        IF SourceDeleteFailed(reqs)
        THEN /\ Len(reqs) = 3
             /\ reqs[3].op = "Delete" /\ reqs[3].key = KeyOf(ret.arg)
             /\ ret.err = MoveError(ret.path, reqs[2].err)
        ELSE Len(reqs) <= 2

---------------------------------------------------------------------------
(* Properties of the configuration *)

\* the parameter v stands for an integer: an int, or a string that spells one
IsInteger(v) ==
    \/ v.kind = "int"
    \/ /\ v.kind = "string"
       /\ LET body == IF v.s # <<>> /\ Head(v.s) \in {"+", "-"} THEN Tail(v.s) ELSE v.s
          IN  body # <<>> /\ \A i \in DOMAIN body : IsDigit(body[i])

\* the integer v stands for
IntegerOf(v) == IF v.kind = "int" THEN v.n ELSE Atoi(v.s).n

\* the chunksize of the parameters is given and is no integer within the limits
BadChunkSize(parameters) ==
    /\ parameters.chunksize.kind # "nil"
    /\ \/ ~IsInteger(parameters.chunksize)
       \/ IntegerOf(parameters.chunksize) < minChunkSize
       \/ IntegerOf(parameters.chunksize) > maxChunkSize

\* one of secretid, secretkey, region and bucket is missing or empty
MissingRequired(parameters) ==
    \E v \in { parameters.secretid, parameters.secretkey, parameters.region, parameters.bucket } :
        v.kind = "nil" \/ (v.kind = "string" /\ v.s = <<>>)

\* C25: FromParameters returns an error, and has sent no request, when the
\* chunksize is no integer, is below the minimum or above the maximum, or when
\* secretid, secretkey, region or bucket is missing or empty.
ConfigValidation ==
    (/\ ret.op = "FromParameters"
     /\ BadChunkSize(ret.arg) \/ MissingRequired(ret.arg))
        => ret.err # Nil /\ reqs = <<>>

\* a chunk size above the maximum was rejected, all else being in order
ConfigValidationWitness ==
    /\ ret.op = "FromParameters"
    /\ ~MissingRequired(ret.arg)
    /\ IsInteger(ret.arg.chunksize) /\ IntegerOf(ret.arg.chunksize) > maxChunkSize
    /\ ret.arg.maxconcurrency.kind = "nil" /\ ret.arg.secure.kind = "nil"
    /\ ret.err # Nil /\ reqs = <<>>

---------------------------------------------------------------------------
(* Properties of the key mapping and of the errors *)

\* the path of the directory that holds the path p
Parent(p) ==
    LET q == SubSeq(p, 1, Len(p) - Len(LastName(p)) - 1)
    IN  IF q = <<>> THEN <<"/">> ELSE q

\* C26: under every RootDirectory, cos.go's List of a path asks for the
\* listing of the prefix that is the key of the path followed by "/" (the root
\* prefix for the root), and every object stored at a path p is returned by
\* List of the parent of p, as the path p (the store answering every request
\* truthfully).
KeyMapping ==
    (ret.op = "List" /\ impl = "cos" /\ Truthful(reqs, objects))
        => /\ reqs[1].key = DirKey(ret.path)
           /\ \A p \in TreePaths :
                 (Parent(p) = ret.path /\ cosPath(p) \in DOMAIN objects)
                     => p \in Entries(ret.data)

\* C27: when an operation of cos.go's driver or of its writer returns an
\* error because its last backend request failed, the error is the translation
\* of the error of that request for the path of the operation: NotFound with
\* the path for the code NoSuchKey, a generic error with the code otherwise;
\* and an operation whose requests all succeeded returns no such error.
ErrorTranslation ==
    (impl = "cos" /\ reqs # <<>>)
        => /\ (reqs[Len(reqs)].err # Nil /\ ret.err # Nil)
                => ret.err = parseError(ret.path, reqs[Len(reqs)].err)
           /\ FailedReqs(reqs) = {}
                => ret.err.kind \notin {"cos.ErrorResponse", "net", "PathNotFoundError",
                                        "fmt.Errorf cos error"}

---------------------------------------------------------------------------
(* Properties of the parts and of the buffer of cos.go's writer *)

\* C29: in every state of a writer the recorded parts are numbered 1, 2, ...,
\* n in order, also after a part upload has failed and more was written; they
\* are the parts the session holds, each once; and a Commit that returns nil
\* has completed the upload with exactly this list.
PartNumbering ==
    (impl = "cos" /\ hist.created)
        => /\ \A i \in DOMAIN w.parts : w.parts[i].PartNumber = i
           /\ DOMAIN PartsOf(w.uploadID) = 1..Len(w.parts)
           /\ \A i \in DOMAIN w.parts : w.parts[i].ETag = ETag(PartsOf(w.uploadID)[i])
           /\ (ret.op = "Commit" /\ ret.err = Nil)
                => /\ w.key \in DOMAIN objects
                   /\ objects[w.key] = Assemble(PartsOf(w.uploadID), w.parts)

\* a writer was committed with two parts after one of its part uploads had failed
PartNumberingWitness ==
    /\ impl = "cos" /\ hist.created
    /\ ~hist.clean
    /\ Len(w.parts) >= 2
    /\ ret.op = "Commit" /\ ret.err = Nil

\* C30: after every Write that returns without error the writer buffers fewer
\* bytes than the configured chunk size.
BufferBound ==
    (ret.op = "Write" /\ ret.err = Nil) => Len(w.buf) < d.ChunkSize

---------------------------------------------------------------------------
(* Properties of the state of a writer and of its upload session *)

\* C34: under every sequence of calls on a writer, failing or not, committed
\* and cancelled are never both true, committed or cancelled implies closed,
\* and a flag that is set is never cleared.
WriterFlags ==
    [][ hist'.created
            => /\ ~(w'.committed /\ w'.cancelled)
               /\ (w'.committed \/ w'.cancelled) => w'.closed
               /\ hist.created
                    => /\ w.closed => w'.closed
                       /\ w.committed => w'.committed
                       /\ w.cancelled => w'.cancelled ]_vars

\* C35: a Commit returns nil only if a Put or a CompleteMultipartUpload for
\* the key of the writer has succeeded, in this Commit or an earlier one, and
\* the writer is marked committed only then.
CommitFinalized ==
    hist.created
        => /\ (ret.op = "Commit" /\ ret.err = Nil) => hist.finalized
           /\ w.committed => hist.finalized

\* the requests that belong to an upload session once it is initiated
SessionOps == {"UploadPart", "CompleteMultipartUpload", "AbortMultipartUpload"}

\* C36: every UploadPart and CompleteMultipartUpload request of a writer is
\* sent after the InitiateMultipartUpload of its session has succeeded; and
\* once a CompleteMultipartUpload has succeeded or an AbortMultipartUpload was
\* sent for the session, no UploadPart, CompleteMultipartUpload or
\* AbortMultipartUpload request is sent for it any more.
SessionProtocol ==
    [][ hist'.created =>
          \A i \in DOMAIN reqs' :
              reqs'[i].op \in SessionOps
                  => /\ \/ w.uploadID # 0
                        \/ \E j \in 1..(i - 1) :
                              /\ reqs'[j].op = "InitiateMultipartUpload"
                              /\ reqs'[j].err = Nil
                     /\ ~hist.over
                     /\ ~Ends(SubSeq(reqs', 1, i - 1)) ]_vars

\* C37: whenever Cancel has returned on a writer that holds an initiated
\* upload session and was never committed, an AbortMultipartUpload request was
\* sent for that session, by this call or an earlier one, whatever calls came
\* before.
CancelSendsAbort ==
    (/\ hist.created /\ ret.op = "Cancel"
     /\ w.uploadID # 0
     /\ hist.commits = 0 /\ ~hist.finalized)
        => hist.over

---------------------------------------------------------------------------
(* Further properties of Delete, Move and the listings *)

\* C38: Delete(P) removes nothing but the object at the key of P and the
\* objects beneath it: every other object of the bucket is unchanged, also one
\* whose key only begins with the characters of the key of P.
DeleteFrame ==
    [][ ret'.op = "Delete"
            => \A k \in DOMAIN objects :
                  (k # KeyOf(ret'.path) /\ ~HasPrefix(k, KeyOf(ret'.path) \o <<"/">>))
                      => k \in DOMAIN objects' /\ objects'[k] = objects[k] ]_vars

\* C39: whatever source and destination are (the same path, or a destination
\* that holds an object already), after Move has returned the content that was
\* at the source is at the source or at the destination; and when Move of two
\* different paths returns nil the destination holds that content and the
\* source holds nothing.
MoveKeepsObject ==
    [][ (ret'.op = "Move" /\ KeyOf(ret'.path) \in DOMAIN objects)
            => LET source  == KeyOf(ret'.path)
                   dest    == KeyOf(ret'.arg)
                   content == objects[source]
               IN  /\ \/ source \in DOMAIN objects' /\ objects'[source] = content
                      \/ dest \in DOMAIN objects' /\ objects'[dest] = content
                   /\ (ret'.err = Nil /\ ret'.path # ret'.arg)
                          => /\ dest \in DOMAIN objects' /\ objects'[dest] = content
                             /\ source \notin DOMAIN objects' ]_vars

\* C33: the requests of a call on a writer are bound to the context of that
\* call: when Commit(ctx) is called on an open writer with ctx cancelled
\* already, every request it makes fails with the cancellation, no part is
\* uploaded, no upload is completed, and Commit returns the cancellation
\* (the backend failing no request on its own).
CommitCancelled ==
    [][ (/\ ret'.op = "Commit" /\ "call" \in ret'.arg
         /\ ~w.closed /\ ~w.committed /\ ~w.cancelled
         /\ \A i \in DOMAIN reqs' : reqs'[i].err \notin BackendErrs)
            => /\ \A i \in DOMAIN reqs' : reqs'[i].err = Canceled
               /\ uploads' = uploads
               /\ objects' = objects
               /\ ret'.err = Canceled ]_vars

---------------------------------------------------------------------------
(* Two writers of one path *)

\* the content all of whose bytes were handed to writer i
BytesOf(content, i) ==
    \A k \in DOMAIN content : (content[k] > 100 * (i - 1)) /\ (content[k] <= 100 * i)

\* C31: two writers created for one path hold different upload sessions under
\* every interleaving of their Write, Commit and Cancel calls; an object that a
\* Commit has completed holds parts of one writer only; the Cancel of one
\* writer leaves the session of the other as it was; and once a Commit of each
\* writer has returned nil the object is the whole content of one of them.
TwoWriters ==
    [][ LET t   == hist'.two
            key == KeyOf(TwoPath)
            w1  == w'
            w2  == t.w2
        IN  /\ (t.made[1] /\ t.made[2]) => w1.uploadID # w2.uploadID
            /\ key \in DOMAIN objects'
                  => BytesOf(objects'[key], 1) \/ BytesOf(objects'[key], 2)
            /\ (ret'.op = "Cancel" /\ t.made[1] /\ t.made[2])
                  => LET other == IF ret'.arg = 1 THEN w2.uploadID ELSE w1.uploadID
                     IN  uploads'[other] = uploads[other]
            /\ (t.committed[1] /\ t.committed[2])
                  => /\ key \in DOMAIN objects'
                     /\ objects'[key] \in { Stream(0, t.accepted[1]),
                                            Stream(100, t.accepted[2]) } ]_vars

---------------------------------------------------------------------------
(* Termination *)

\* C32: on a finite bucket List and the loop of Delete return: each asks for a
\* further page only after a page with IsTruncated = true, with the NextMarker
\* of that page as its marker, and the first page with no marker.
PaginationTerminates ==
    /\ [](ret.op \in {"ListLoop", "DeleteLoop"}
            => IF ret.n = 0 THEN ret.arg.Marker = <<>>
               ELSE ret.arg.IsTruncated /\ ret.arg.Marker = ret.arg.NextMarker)
    /\ (ret.op \in Paging) ~> (ret.op \in {"List", "Delete"})

\* a List or a Delete has returned nil after more than one page
PaginationWitness ==
    /\ ret.op \in {"List", "Delete"} /\ ret.err = Nil
    /\ ret.n >= 2 /\ Len(reqs) >= 2

\* C40: every Write call returns, after finitely many part uploads, whatever
\* the length of its input and whatever the chunk size of the driver New has
\* constructed, a chunk size of 0 included.
WriteTerminates == (ret.op = "WriteLoop") ~> (ret.op = "Write")

====
